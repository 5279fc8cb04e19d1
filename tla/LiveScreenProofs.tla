--------------------------- MODULE LiveScreenProofs ---------------------------
(* Proofs about live screen delivery, for every size of the screen, every    *)
(* number of revisions and interruptions, and every capacity of the cache    *)
(* and of a subscription.                                                  *)
EXTENDS LiveScreenView, FiniteSetTheorems, SequenceTheorems, WellFoundedInduction, TLAPS

(***************************************************************************)
(* The inductive invariant.                                                *)
(***************************************************************************)

(* The records of the model.  An answer names rows in its domains.          *)
Contents == 0 .. (NumRows + MaxRevision)
Revisions == 0 .. MaxRevision
PartOf(S) == UNION {[D -> S] : D \in SUBSET Rows}
Answer == [rev : Revisions, full : BOOLEAN, copies : PartOf(Rows), fresh : PartOf(Contents)]
PollStates == {"idle", "sent", "subscribed", "waiting", "ready", "offering", "answered"}
Poll == [at : PollStates, observed : Revisions, base : Revisions, wakes : Seq(Revisions),
         answer : Answer]
Damage == [kind : {"none", "rows", "full"}, rows : SUBSET Rows]
Live == [open : BOOLEAN, received : Revisions, rows : Screen, damage : Damage,
         published : Revisions, rendering : Revisions, demand : BOOLEAN, requesting : BOOLEAN]
Snapshot == [rev : Revisions, rows : Screen, damage : Damage]
Write == [rev : Revisions, rows : Screen, damage : Damage, reports : Revisions]

PoolType ==
    /\ log \in Seq(Screen) /\ Revision \in 1 .. MaxRevision
    /\ epoch \in 1 .. Revision
    /\ unpublished \in [Writers -> 0 .. Revision]
    /\ confirmed \in 0 .. Revision /\ offered \in 0 .. Revision /\ charged \in Nat

(* The answer of a poll is the screen of its revision, or what makes it of   *)
(* the screen the client has observed.                                     *)
Answered(p) ==
    p.at \in {"offering", "answered"} =>
        /\ p.answer.rev \in 1 .. Revision
        /\ p.answer.full => p.answer.fresh = log[p.answer.rev]
        /\ ~p.answer.full =>
              /\ p.observed # 0
              /\ p.answer.copies = CopiedRows(log[p.observed], log[p.answer.rev])
              /\ p.answer.fresh = FreshRows(log[p.observed], log[p.answer.rev])

PollOK(p) ==
    /\ p.observed <= Revision /\ p.base \in {0, p.observed}
    /\ Len(p.wakes) <= WakeBuffer
    /\ Answered(p)

(* The state of the protocol session.  A request under way leaves no frame   *)
(* to publish; a published frame waits for nothing but its submission.       *)
Session(l) ==
    /\ l.damage.kind = "none" => l.damage.rows = {}
    /\ l.damage.kind = "full" => l.damage.rows = Rows
    /\ l.requesting => l.open /\ l.damage.kind = "none" /\ l.published = 0
    /\ l.published # 0 => l.rendering = 0 /\ l.damage.kind = "none" /\ l.published = l.received
    /\ l.damage.kind # "none" => l.received # 0
    /\ ~l.open => l.received = 0

(* What React holds is the frame published last: the canonical screen, or    *)
(* the one that the damage leads from.                                     *)
Published(l, s) ==
    /\ l.received # 0 => l.rows = log[l.received]
    /\ s.rev # 0 => s.rows = log[s.rev]
    /\ l.received # 0 /\ l.damage.kind = "none" => s.rev = l.received
    /\ l.damage.kind = "rows" =>
          s.rev # 0 /\ \A r \in Rows \ l.damage.rows : s.rows[r] = l.rows[r]

(* What row r will show when the writes are parsed.                         *)
Covers(q, i, r) == r \in q[i].damage.rows
Final(q, x, r, v) ==
    \/ \E i \in 1 .. Len(q) :
          /\ Covers(q, i, r) /\ q[i].rows[r] = v
          /\ \A j \in 1 .. Len(q) : j > i => ~Covers(q, j, r)
    \/ /\ \A j \in 1 .. Len(q) : ~Covers(q, j, r)
       /\ x[r] = v

Drawn(l, s, q, x, ph) ==
    ph = "live" /\ l.received # 0 =>
        \A r \in Rows \ (IF l.published # 0 THEN s.damage.rows ELSE l.damage.rows) :
            Final(q, x, r, l.rows[r])

(* Nothing is left to draw.                                                 *)
AllDrawn(l, q, x) == \A r \in Rows : Final(q, x, r, l.rows[r])

(* The state of the session and of the view, as a callback passes it on.    *)
View(l, p, s, q, x, ph) ==
    /\ l \in Live /\ l.received <= Revision
    /\ p \in [Slots -> Poll] /\ \A t \in Slots : PollOK(p[t])
    /\ s \in Snapshot /\ s.rev <= Revision
    /\ q \in Seq(Write) /\ \A i \in 1 .. Len(q) : q[i].rev <= Revision
    /\ x \in Screen
    /\ l.requesting = (p["current"].at # "idle")
    /\ Session(l) /\ Published(l, s) /\ Drawn(l, s, q, x, ph)

Others ==
    /\ visible \in BOOLEAN /\ phase \in {"live", "history"}
    /\ seen \in 0 .. Revision /\ submitted \in 0 .. Revision /\ drawn \in 0 .. Revision

IndInv ==
    /\ PoolType /\ Others
    /\ View(live, poll, snap, writes, xterm, phase)
    /\ BaselineCharged

-----------------------------------------------------------------------------
(***************************************************************************)
(* Records and rows.                                                       *)
(***************************************************************************)

(* The bounds are numbers, and a screen has at least one row.               *)
LEMMA Bounds ==
  /\ NumRows \in Nat /\ NumRows >= 1 /\ MaxRevision \in Nat /\ MaxRevision >= 1
  /\ WakeBuffer \in Nat /\ WakeBuffer >= 1 /\ CacheBytes \in Nat
  /\ 0 \in Contents /\ 0 \in Revisions /\ Revisions \subseteq Nat /\ Rows \subseteq Nat
  /\ Rows \subseteq Contents
  BY PoolAssumption DEF Contents, Revisions, Rows

(* An answer that names no row.                                             *)
LEMMA NoRows == ASSUME NEW S PROVE <<>> \in PartOf(S)
<1>1. <<>> \in [{} -> S]
  OBVIOUS
<1> QED
  BY <1>1 DEF PartOf

(* The screens, polls, snapshots and sessions that the program starts with  *)
(* have their types.                                                        *)
LEMMA Constants ==
  /\ Blank \in Screen /\ NoDamage \in Damage /\ FullScreenDamage \in Damage
  /\ NoPoll \in Poll /\ NoSnap \in Snapshot /\ Opened \in Live /\ Closed \in Live
<1>1. Blank \in Screen
  BY Bounds DEF Blank, Screen, Contents
<1>2. NoDamage \in Damage /\ FullScreenDamage \in Damage
  BY DEF NoDamage, FullScreenDamage, Damage
<1>3. NoAnswer \in Answer
  BY NoRows, Bounds DEF NoAnswer, Answer
<1>4. NoPoll \in Poll
  BY <1>3, Bounds, EmptySeq DEF NoPoll, Poll, PollStates
<1>5. NoSnap \in Snapshot
  BY <1>1, <1>2, Bounds DEF NoSnap, Snapshot
<1>6. Opened \in Live /\ Closed \in Live
  BY <1>1, <1>2, Bounds DEF Opened, Closed, Live
<1> QED
  BY <1>1, <1>2, <1>4, <1>5, <1>6

(* A row found in the base has a first place there.                         *)
LEMMA FirstPlace ==
  ASSUME NEW b \in Screen, NEW v, \E i \in Rows : b[i] = v
  PROVE  \E i \in Rows : b[i] = v /\ \A o \in Rows : b[o] = v => i <= o
<1> DEFINE T == {i \in Rows : b[i] = v}
<1>1. T # {} /\ T \subseteq Nat
  BY Bounds
<1> HIDE DEF T
<1>2. PICK i \in T : \A o \in T : ~(<<o, i>> \in OpToRel(<, Nat))
  BY <1>1, NatLessThanWellFounded, WFMin
<1>3. \A o \in T : ~(o < i)
  BY <1>1, <1>2 DEF OpToRel
<1>4. \A o \in T : i <= o
  BY <1>1, <1>3
<1> QED
  BY <1>4 DEF T

(* mergeLiveScreenResult undoes nativeScreenDeltaRows: the delta between two *)
(* screens, merged into the first, gives the second.                       *)
LEMMA MergeGivesScreen ==
  ASSUME NEW l \in Live, NEW a \in Answer, NEW cur \in Screen,
         \/ a.full /\ a.fresh = cur
         \/ ~a.full /\ a.copies = CopiedRows(l.rows, cur) /\ a.fresh = FreshRows(l.rows, cur)
  PROVE  MergedRows(l, a) = cur
<1>0. l.rows \in Screen
  BY DEF Live
<1>1. CASE a.full
  BY <1>1 DEF MergedRows, Screen, Contents
<1>2. CASE ~a.full
  <2>0. a.copies = CopiedRows(l.rows, cur) /\ a.fresh = FreshRows(l.rows, cur)
    BY <1>2
  <2>1. \A r \in Rows : r \in DOMAIN a.fresh <=> \A i \in Rows : l.rows[i] # cur[r]
    BY <2>0 DEF FreshRows
  <2>2. \A r \in DOMAIN a.fresh : a.fresh[r] = cur[r]
    BY <2>0 DEF FreshRows
  <2>3. \A r \in Rows : r \in DOMAIN a.copies
                      <=> l.rows[r] # cur[r] /\ \E i \in Rows : l.rows[i] = cur[r]
    BY <2>0 DEF CopiedRows
  <2>4. ASSUME NEW r \in DOMAIN a.copies PROVE l.rows[a.copies[r]] = cur[r]
    <3>0. r \in Rows /\ \E i \in Rows : l.rows[i] = cur[r]
      BY <2>0, <2>4 DEF CopiedRows
    <3>1. a.copies[r] = CHOOSE i \in Rows : /\ l.rows[i] = cur[r]
                                            /\ \A o \in Rows : l.rows[o] = cur[r] => i <= o
      BY <2>0, <2>4 DEF CopiedRows
    <3>2. \E i \in Rows : l.rows[i] = cur[r] /\ \A o \in Rows : l.rows[o] = cur[r] => i <= o
      BY <1>0, <3>0, FirstPlace
    <3> QED
      BY <3>1, <3>2, Zenon
  <2>5. ASSUME NEW r \in Rows PROVE MergedRows(l, a)[r] = cur[r]
    BY <1>2, <2>1, <2>2, <2>3, <2>4 DEF MergedRows
  <2> QED
    BY <2>5 DEF MergedRows, Screen
<1> QED
  BY <1>1, <1>2

(***************************************************************************)
(* The writes xterm has still to parse.                                     *)
(***************************************************************************)

(* A write that is appended decides the rows it covers, and no other.        *)
LEMMA AppendFinal ==
  ASSUME NEW q \in Seq(Write), NEW w \in Write, NEW x, NEW r
  PROVE  /\ r \in w.damage.rows => Final(Append(q, w), x, r, w.rows[r])
         /\ \A v : r \notin w.damage.rows /\ Final(q, x, r, v) => Final(Append(q, w), x, r, v)
<1> DEFINE t == Append(q, w)
           n == Len(q)
<1>1. /\ n \in Nat /\ Len(t) = n + 1 /\ t[n + 1] = w
      /\ \A i \in 1 .. n : t[i] = q[i]
  OBVIOUS
<1> HIDE DEF t, n
<1>2. \A i \in 1 .. n + 1 : i \in 1 .. n \/ i = n + 1
  BY <1>1
<1>3. n + 1 \in 1 .. n + 1 /\ \A i \in 1 .. n : i \in 1 .. n + 1
  BY <1>1
<1>4. \A i \in 1 .. n + 1 : ~(i > n + 1)
  BY <1>1
<1>5. r \in w.damage.rows => Final(t, x, r, w.rows[r])
  BY <1>1, <1>3, <1>4 DEF Final, Covers
<1>6. ASSUME NEW v, r \notin w.damage.rows, Final(q, x, r, v) PROVE Final(t, x, r, v)
  <2>1. \A i \in 1 .. n : Covers(t, i, r) <=> Covers(q, i, r)
    BY <1>1 DEF Covers
  <2>2. ~Covers(t, n + 1, r)
    BY <1>1, <1>6 DEF Covers
  <2>3. CASE (\A j \in 1 .. n : ~Covers(q, j, r)) /\ x[r] = v
    BY <1>1, <1>2, <2>1, <2>2, <2>3 DEF Final
  <2>4. ASSUME NEW i \in 1 .. n, Covers(q, i, r), q[i].rows[r] = v,
               \A j \in 1 .. n : j > i => ~Covers(q, j, r)
        PROVE  Final(t, x, r, v)
    <3>1. i \in 1 .. n + 1 /\ Covers(t, i, r) /\ t[i].rows[r] = v
      BY <1>1, <1>3, <2>1, <2>4
    <3>2. \A j \in 1 .. n + 1 : j > i => ~Covers(t, j, r)
      BY <1>2, <2>1, <2>2, <2>4
    <3> QED
      BY <1>1, <3>1, <3>2 DEF Final
  <2> QED
    BY <1>6, <2>3, <2>4 DEF Final, n
<1> QED
  BY <1>5, <1>6 DEF t

(* Parsing a write changes nothing of what will be shown in the end.         *)
LEMMA ParseFinal ==
  ASSUME NEW q \in Seq(Write), q # <<>>, NEW x \in Screen, NEW r \in Rows, NEW v,
         Final(q, x, r, v)
  PROVE  Final(Tail(q),
               [k \in Rows |-> IF k \in Head(q).damage.rows THEN Head(q).rows[k] ELSE x[k]], r, v)
<1> DEFINE t == Tail(q)
           n == Len(q)
           y == [k \in Rows |-> IF k \in Head(q).damage.rows THEN Head(q).rows[k] ELSE x[k]]
<1>1. /\ n \in Nat /\ n >= 1 /\ Len(t) = n - 1 /\ Head(q) = q[1]
      /\ \A i \in 1 .. n - 1 : t[i] = q[i + 1]
  OBVIOUS
<1>2. y[r] = IF Covers(q, 1, r) THEN q[1].rows[r] ELSE x[r]
  BY <1>1 DEF Covers
<1> HIDE DEF t, n, y
<1>3. \A i \in 1 .. n - 1 : Covers(t, i, r) <=> Covers(q, i + 1, r)
  BY <1>1 DEF Covers
<1>4. \A i \in 1 .. n - 1 : i + 1 \in 1 .. n /\ i + 1 > 1
  BY <1>1
<1>5. ASSUME \A j \in 1 .. n : ~Covers(q, j, r), x[r] = v
      PROVE  Final(t, y, r, v)
  <2>1. y[r] = v
    BY <1>1, <1>2, <1>5
  <2>2. \A j \in 1 .. n - 1 : ~Covers(t, j, r)
    BY <1>3, <1>4, <1>5
  <2> QED
    BY <1>1, <2>1, <2>2 DEF Final
<1>6. ASSUME NEW i \in 1 .. n, Covers(q, i, r), q[i].rows[r] = v,
             \A j \in 1 .. n : j > i => ~Covers(q, j, r)
      PROVE  Final(t, y, r, v)
  <2>1. CASE i = 1
    <3>1. y[r] = v
      BY <1>2, <1>6, <2>1
    <3>2. \A j \in 1 .. n - 1 : ~Covers(t, j, r)
      BY <1>3, <1>4, <1>6, <2>1
    <3> QED
      BY <1>1, <3>1, <3>2 DEF Final
  <2>2. CASE i # 1
    <3> DEFINE m == i - 1
    <3>1. m \in 1 .. n - 1 /\ m + 1 = i
      BY <1>1, <2>2
    <3> HIDE DEF m
    <3>2. Covers(t, m, r) /\ t[m].rows[r] = v
      BY <1>1, <1>3, <1>6, <3>1
    <3>3. ASSUME NEW j \in 1 .. n - 1, j > m PROVE ~Covers(t, j, r)
      <4>1. j + 1 \in 1 .. n /\ j + 1 > i
        BY <1>1, <3>1, <3>3
      <4> QED
        BY <1>3, <1>6, <4>1
    <3> QED
      BY <1>1, <3>1, <3>2, <3>3 DEF Final
  <2> QED
    BY <2>1, <2>2
<1>7. Final(t, y, r, v)
  <2>1. \/ \E i \in 1 .. n : /\ Covers(q, i, r) /\ q[i].rows[r] = v
                              /\ \A j \in 1 .. n : j > i => ~Covers(q, j, r)
        \/ (\A j \in 1 .. n : ~Covers(q, j, r)) /\ x[r] = v
    BY DEF Final, n
  <2> QED
    BY <1>5, <1>6, <2>1
<1> QED
  BY <1>7 DEF t, y

(***************************************************************************)
(* The callbacks of the protocol session.                                   *)
(***************************************************************************)

(* The same screen, damage and frames.                                      *)
SameFrames(l, m) ==
    /\ m.received = l.received /\ m.rows = l.rows /\ m.damage = l.damage
    /\ m.published = l.published

(* A change of the session that leaves its frames alone leaves what is      *)
(* published and drawn alone.                                               *)
LEMMA SameView ==
  ASSUME NEW l, NEW m, NEW s, NEW q, NEW x, NEW ph, SameFrames(l, m),
         Published(l, s), Drawn(l, s, q, x, ph)
  PROVE  Published(m, s) /\ Drawn(m, s, q, x, ph)
  BY DEF SameFrames, Published, Drawn

(* mergeLiveScreenDamage: damage of kind none is the same as no damage.     *)
LEMMA NoDamageKind ==
  ASSUME NEW l \in Live, Session(l)
  PROVE  /\ l.damage = NoDamage <=> l.damage.kind = "none"
         /\ l.damage.kind \in {"none", "rows", "full"} /\ l.damage.rows \subseteq Rows
<1>1. l.damage \in Damage
  BY DEF Live
<1>2. l.damage.kind = "none" => l.damage = NoDamage
  <2>1. l.damage = [kind |-> l.damage.kind, rows |-> l.damage.rows]
    BY <1>1 DEF Damage
  <2> QED
    BY <2>1 DEF Session, NoDamage
<1> QED
  BY <1>1, <1>2 DEF Damage, NoDamage

(* A request that startLiveScreenRequest sends has no answer yet, and       *)
(* nothing has woken it.                                                    *)
LEMMA SentPollOK ==
  ASSUME NEW n \in Revisions, n <= Revision
  PROVE  SentPoll(n) \in Poll /\ PollOK(SentPoll(n)) /\ SentPoll(n).at = "sent"
<1>1. NoPoll \in Poll /\ Len(<<>>) = 0 /\ NoPoll.base = 0 /\ NoPoll.wakes = <<>>
  BY Constants DEF NoPoll
<1>2. /\ SentPoll(n) \in Poll /\ SentPoll(n).at = "sent" /\ SentPoll(n).observed = n
      /\ SentPoll(n).base = NoPoll.base /\ SentPoll(n).wakes = NoPoll.wakes
  BY <1>1 DEF SentPoll, Poll, PollStates
<1> QED
  BY <1>1, <1>2, Bounds DEF PollOK, Answered

(* A slot without a request is in order.                                    *)
LEMMA NoPollOK ==
  ASSUME PoolType
  PROVE  NoPoll \in Poll /\ PollOK(NoPoll) /\ NoPoll.at = "idle"
<1>1. Len(<<>>) = 0
  OBVIOUS
<1> QED
  BY <1>1, Constants, Bounds DEF PollOK, Answered, NoPoll, PoolType

(* There is the current request of the session and an aborted one that may  *)
(* still be answered.                                                       *)
LEMMA SlotSet == "current" \in Slots /\ "stale" \in Slots /\ \A t \in Slots : t = "current" \/ t = "stale"
  BY DEF Slots

(* startLiveScreenRequest.                                                  *)
LEMMA RequestGood ==
  ASSUME NEW l, NEW p, NEW s, NEW q, NEW x, NEW ph, NEW vis, View(l, p, s, q, x, ph),
         MayRequest(l, vis), NEW m, m = [l EXCEPT !.requesting = TRUE],
         NEW ps, ps = [p EXCEPT !["current"] = SentPoll(l.received)]
  PROVE  View(m, ps, s, q, x, ph)
<1>0. l \in Live /\ Session(l) /\ l.received \in Revisions
  BY DEF View, Live
<1>1. /\ m \in Live /\ SameFrames(l, m) /\ m.requesting = TRUE
      /\ m.open = l.open /\ m.rendering = l.rendering
  BY <1>0 DEF Live, SameFrames
<1>2. l.open /\ l.damage.kind = "none" /\ l.published = 0
  BY <1>0, NoDamageKind DEF MayRequest
<1>3. Session(m)
  BY <1>0, <1>1, <1>2 DEF Session, SameFrames
<1>4. /\ ps \in [Slots -> Poll] /\ \A t \in Slots : PollOK(ps[t])
      /\ ps["current"].at = "sent"
  BY <1>0, SentPollOK, SlotSet DEF View
<1>5. Published(m, s) /\ Drawn(m, s, q, x, ph)
  BY <1>1, SameView DEF View
<1>6. m.requesting = (ps["current"].at # "idle")
  BY <1>1, <1>4
<1> QED
  BY <1>1, <1>3, <1>4, <1>5, <1>6 DEF View, SameFrames

(* startLiveScreenRequest, whether it sends a request or finds one under    *)
(* way.                                                                     *)
LEMMA StartGood ==
  ASSUME NEW l, NEW p, NEW s, NEW q, NEW x, NEW ph, NEW vis, View(l, p, s, q, x, ph),
         StartLiveScreenRequest(l, vis, p)
  PROVE  View(live', poll', s, q, x, ph)
<1>1. CASE ~MayRequest(l, vis)
  BY <1>1 DEF StartLiveScreenRequest
<1>2. CASE MayRequest(l, vis)
  <2>1. live' = [l EXCEPT !.requesting = TRUE] /\ poll' = [p EXCEPT !["current"] = SentPoll(l.received)]
    BY <1>2 DEF StartLiveScreenRequest
  <2> QED
    BY <1>2, <2>1, RequestGood
<1> QED
  BY <1>1, <1>2

(* publishReceivedScreen.                                                   *)
LEMMA PublishGood ==
  ASSUME NEW l, NEW p, NEW s, NEW q, NEW x, NEW ph, View(l, p, s, q, x, ph),
         MayPublish(l), NEW m, m = [l EXCEPT !.damage = NoDamage, !.published = l.received],
         NEW t, t = [rev |-> l.received, rows |-> l.rows, damage |-> l.damage]
  PROVE  View(m, p, t, q, x, ph)
<1>0. l \in Live /\ Session(l) /\ l.received \in Revisions /\ l.rows \in Screen /\ l.damage \in Damage
  BY DEF View, Live
<1>1. l.damage.kind # "none" /\ l.received # 0 /\ l.published = 0 /\ l.rendering = 0 /\ ~l.requesting
  BY <1>0, NoDamageKind DEF MayPublish, Session
<1>2. /\ m \in Live /\ m.received = l.received /\ m.rows = l.rows
      /\ m.damage = NoDamage /\ m.published = l.received /\ m.rendering = l.rendering
      /\ m.requesting = l.requesting /\ m.open = l.open
  BY <1>0, Constants DEF Live
<1>3. /\ t \in Snapshot /\ t.rev = l.received /\ t.rows = l.rows
      /\ t.damage = l.damage
  BY <1>0 DEF Snapshot
<1>4. NoDamage.kind = "none" /\ NoDamage.rows = {}
  BY DEF NoDamage
<1>5. Session(m)
  BY <1>0, <1>1, <1>2, <1>4 DEF Session
<1>6. Published(m, t)
  BY <1>1, <1>2, <1>3, <1>4 DEF Published, View
<1>7. Drawn(m, t, q, x, ph)
  BY <1>1, <1>2, <1>3 DEF Drawn, View
<1> QED
  BY <1>2, <1>3, <1>5, <1>6, <1>7 DEF View

(* An abort, which may leave the request running at the pool.               *)
LEMMA AbortGood ==
  ASSUME PoolType, NEW ps \in AbortedPolls, poll \in [Slots -> Poll],
         \A t \in Slots : PollOK(poll[t])
  PROVE  /\ ps \in [Slots -> Poll] /\ \A t \in Slots : PollOK(ps[t])
         /\ ps["current"].at = "idle"
<1>1. \/ ps = [poll EXCEPT !["current"] = NoPoll]
      \/ ps = [poll EXCEPT !["current"] = NoPoll, !["stale"] = poll["current"]]
  BY DEF AbortedPolls
<1> QED
  BY <1>1, NoPollOK, SlotSet

(* pauseLiveScreen, when its request is aborted.                            *)
LEMMA PauseGood ==
  ASSUME NEW l, NEW p, NEW s, NEW q, NEW x, NEW ph, View(l, p, s, q, x, ph),
         NEW ps \in [Slots -> Poll], \A t \in Slots : PollOK(ps[t]), ps["current"].at = "idle"
  PROVE  View(PauseLiveScreen(l), ps, s, q, x, ph)
<1> DEFINE m == PauseLiveScreen(l)
<1>0. l \in Live /\ Session(l) /\ FullScreenDamage \in Damage /\ 0 \in Revisions
  BY Constants, Bounds DEF View
<1>1. /\ m \in Live /\ m.received = l.received /\ m.rows = l.rows /\ m.open = l.open
      /\ m.rendering = l.rendering /\ m.requesting = FALSE
      /\ l.published # 0 => m.published = 0 /\ m.damage = FullScreenDamage
      /\ l.published = 0 => m.published = l.published /\ m.damage = l.damage
  BY <1>0 DEF PauseLiveScreen, Live, Session
<1> HIDE DEF m
<1>2. FullScreenDamage.kind = "full" /\ FullScreenDamage.rows = Rows
  BY DEF FullScreenDamage
<1>3. Session(m)
  BY <1>0, <1>1, <1>2 DEF Session
<1>4. Published(m, s)
  BY <1>1, <1>2 DEF Published, View
<1>5. Drawn(m, s, q, x, ph)
  BY <1>1, <1>2 DEF Drawn, View
<1>6. m.requesting = (ps["current"].at # "idle")
  BY <1>1
<1> QED
  BY <1>1, <1>3, <1>4, <1>5, <1>6 DEF View, m

(* A write is appended that draws nothing but the canonical screen in the    *)
(* rows that are not still to be drawn.                                     *)
LEMMA AppendGood ==
  ASSUME NEW l, NEW p, NEW s, NEW q, NEW x, NEW ph, View(l, p, s, q, x, ph),
         NEW w \in Write, w.rev <= Revision,
         ph = "live" /\ l.received # 0 =>
            \A r \in w.damage.rows \ (IF l.published # 0 THEN s.damage.rows ELSE l.damage.rows) :
               w.rows[r] = l.rows[r]
  PROVE  View(l, p, s, Append(q, w), x, ph)
<1>1. q \in Seq(Write)
  BY DEF View
<1>2. Append(q, w) \in Seq(Write) /\ \A i \in 1 .. Len(Append(q, w)) : Append(q, w)[i].rev <= Revision
  BY <1>1 DEF View
<1>3. Drawn(l, s, Append(q, w), x, ph)
  BY <1>1, AppendFinal DEF Drawn, View
<1> QED
  BY <1>2, <1>3 DEF View

(* The emulator parses the first of the pending writes: the writes behind   *)
(* it still lead to the same content.                                       *)
LEMMA ParseGood ==
  ASSUME NEW l, NEW p, NEW s, NEW q, NEW x, NEW ph, View(l, p, s, q, x, ph), q # <<>>
  PROVE  /\ Head(q) \in Write /\ Head(q).rev <= Revision
         /\ View(l, p, s, Tail(q),
                 [k \in Rows |-> IF k \in Head(q).damage.rows THEN Head(q).rows[k] ELSE x[k]], ph)
<1> DEFINE y == [k \in Rows |-> IF k \in Head(q).damage.rows THEN Head(q).rows[k] ELSE x[k]]
<1>1. q \in Seq(Write) /\ x \in Screen /\ \A i \in 1 .. Len(q) : q[i].rev <= Revision
  BY DEF View
<1>2. /\ Head(q) \in Write /\ Head(q).rev <= Revision
      /\ Tail(q) \in Seq(Write) /\ \A i \in 1 .. Len(Tail(q)) : Tail(q)[i].rev <= Revision
  BY <1>1
<1>3. Head(q).rows \in Screen
  BY <1>2 DEF Write
<1>4. y \in Screen
  BY <1>1, <1>3 DEF Screen
<1>5. \A r \in Rows : \A v : Final(q, x, r, v) => Final(Tail(q), y, r, v)
  BY <1>1, ParseFinal
<1> HIDE DEF y
<1>6. Drawn(l, s, Tail(q), y, ph)
  BY <1>5 DEF Drawn, View
<1>7. View(l, p, s, Tail(q), y, ph)
  BY <1>2, <1>4, <1>6 DEF View
<1> QED
  BY <1>2, <1>7 DEF y

(* setLiveScreenDemand.                                                     *)
LEMMA DemandGood ==
  ASSUME NEW l, NEW p, NEW s, NEW q, NEW x, NEW ph, View(l, p, s, q, x, ph),
         NEW b \in BOOLEAN, NEW m, m = [l EXCEPT !.demand = b]
  PROVE  View(m, p, s, q, x, ph)
<1>0. l \in Live /\ Session(l)
  BY DEF View
<1>1. /\ m \in Live /\ SameFrames(l, m) /\ m.requesting = l.requesting
      /\ m.open = l.open /\ m.rendering = l.rendering
  BY <1>0 DEF Live, SameFrames
<1>2. Session(m)
  BY <1>0, <1>1 DEF Session, SameFrames
<1>3. Published(m, s) /\ Drawn(m, s, q, x, ph)
  BY <1>1, SameView DEF View
<1> QED
  BY <1>1, <1>2, <1>3 DEF View, SameFrames

(* markLiveScreenSubmitted, once the frame is among the writes.              *)
LEMMA SubmitGood ==
  ASSUME NEW l, NEW p, NEW s, NEW q, NEW x, NEW ph, View(l, p, s, q, x, ph),
         ph = "live" /\ l.received # 0 /\ l.published # 0 => AllDrawn(l, q, x),
         NEW rev \in Revisions, MarkLiveScreenSubmitted(l, rev, p)
  PROVE  View(live', poll', s, q, x, ph)
<1>0. l \in Live /\ Session(l)
  BY DEF View
<1>1. CASE ~Accepts(l, rev)
  BY <1>1 DEF MarkLiveScreenSubmitted
<1>2. CASE Accepts(l, rev)
  <2> DEFINE m == [l EXCEPT !.published = 0, !.rendering = rev]
  <2>1. StartLiveScreenRequest(m, visible, p)
    BY <1>2 DEF MarkLiveScreenSubmitted
  <2>2. /\ m \in Live /\ m.received = l.received /\ m.rows = l.rows /\ m.damage = l.damage
        /\ m.published = 0 /\ m.requesting = l.requesting /\ m.open = l.open
    BY <1>0, Bounds DEF Live
  <2> HIDE DEF m
  <2>3. Session(m)
    BY <1>0, <2>2 DEF Session
  <2>4. Published(m, s)
    BY <2>2 DEF Published, View
  <2>5. Drawn(m, s, q, x, ph)
    BY <2>2 DEF Drawn, View, AllDrawn
  <2>6. View(m, p, s, q, x, ph)
    BY <2>2, <2>3, <2>4, <2>5 DEF View
  <2> QED
    BY <2>1, <2>6, StartGood
<1> QED
  BY <1>1, <1>2

(* markLiveScreenCompleted.                                                 *)
LEMMA CompleteGood ==
  ASSUME NEW q, NEW x, NEW rev, View(live, poll, snap, q, x, phase), MarkLiveScreenCompleted(rev)
  PROVE  View(live', poll, snap', q, x, phase)
<1>0. live \in Live /\ Session(live)
  BY DEF View
<1>1. CASE ~(live.open /\ live.rendering = rev)
  BY <1>1 DEF MarkLiveScreenCompleted, NoPublication
<1>2. CASE live.open /\ live.rendering = rev
  <2> DEFINE m == [live EXCEPT !.rendering = 0]
  <2>1. IF MayPublish(m) THEN PublishReceivedScreen(m) ELSE live' = m /\ NoPublication
    BY <1>2 DEF MarkLiveScreenCompleted
  <2>2. /\ m \in Live /\ SameFrames(live, m) /\ m.requesting = live.requesting
        /\ m.open = live.open /\ m.rendering = 0
    BY <1>0, Bounds DEF Live, SameFrames
  <2> HIDE DEF m
  <2>3. Session(m)
    BY <1>0, <2>2 DEF Session, SameFrames
  <2>4. Published(m, snap) /\ Drawn(m, snap, q, x, phase)
    BY <2>2, SameView DEF View
  <2>5. View(m, poll, snap, q, x, phase)
    BY <2>2, <2>3, <2>4 DEF View, SameFrames
  <2>6. CASE MayPublish(m)
    BY <2>1, <2>5, <2>6, PublishGood DEF PublishReceivedScreen
  <2>7. CASE ~MayPublish(m)
    BY <2>1, <2>5, <2>7 DEF NoPublication
  <2> QED
    BY <2>6, <2>7
<1> QED
  BY <1>1, <1>2

(* resumeLiveScreen.                                                        *)
LEMMA ResumeGood ==
  ASSUME NEW vis, View(live, poll, snap, writes, xterm, phase), ResumeLiveScreen(live, vis, poll)
  PROVE  View(live', poll', snap', writes, xterm, phase)
<1>1. CASE ~live.demand \/ ~vis
  BY <1>1 DEF ResumeLiveScreen, NoPublication
<1>2. CASE ~(~live.demand \/ ~vis) /\ MayPublish(live)
  <2>1. PublishReceivedScreen(live) /\ poll' = poll
    BY <1>2 DEF ResumeLiveScreen
  <2> QED
    BY <1>2, <2>1, PublishGood DEF PublishReceivedScreen
<1>3. CASE ~(~live.demand \/ ~vis) /\ ~MayPublish(live)
  <2>1. StartLiveScreenRequest(live, vis, poll) /\ snap' = snap
    BY <1>3 DEF ResumeLiveScreen, NoPublication
  <2> QED
    BY <2>1, StartGood
<1> QED
  BY <1>1, <1>2, <1>3

(***************************************************************************)
(* The actions of the client.                                               *)
(***************************************************************************)

(* The answer of the poll: it is dropped, it cannot be merged, or it gives   *)
(* the pool's screen with the damage that leads there.                     *)
LEMMA AnswerStep ==
  ASSUME IndInv, LiveScreenAnswer
  PROVE  View(live', poll', snap', writes, xterm, phase)
<1> DEFINE pc == poll["current"]
           a == pc.answer
           polls == [poll EXCEPT !["current"] = NoPoll]
           l == [live EXCEPT !.requesting = FALSE]
           m == [l EXCEPT !.received = a.rev, !.rows = MergedRows(l, a), !.damage = MergedDamage(a)]
<1>0. /\ View(live, poll, snap, writes, xterm, phase) /\ live \in Live /\ Session(live) /\ PoolType
      /\ poll \in [Slots -> Poll]
  BY DEF IndInv, View
<1>1. pc \in Poll /\ pc.at = "answered" /\ Answered(pc) /\ a \in Answer /\ pc.observed <= Revision
  BY <1>0, SlotSet DEF LiveScreenAnswer, View, PollOK, Poll
<1>2. live.requesting
  BY <1>1 DEF View, IndInv
<1>3. live.open /\ live.damage.kind = "none" /\ live.published = 0 /\ live.damage.rows = {}
  BY <1>0, <1>2 DEF Session
<1>4. /\ l \in Live /\ SameFrames(live, l) /\ l.requesting = FALSE
      /\ l.open = live.open /\ l.rendering = live.rendering
  BY <1>0 DEF Live, SameFrames
<1>5. polls \in [Slots -> Poll] /\ (\A t \in Slots : PollOK(polls[t])) /\ polls["current"].at = "idle"
  BY <1>0, NoPollOK, SlotSet DEF View
<1>6. \/ live' = l /\ poll' = polls /\ NoPublication
      \/ /\ StartLiveScreenRequest([l EXCEPT !.received = 0, !.damage = NoDamage], visible, polls)
         /\ NoPublication
      \/ /\ Mergeable(l, pc.observed, a) /\ poll' = polls
         /\ \/ /\ m.rendering = 0 /\ m.published = 0
               /\ PublishReceivedScreen(m)
            \/ live' = m /\ NoPublication
  BY DEF LiveScreenAnswer
<1> HIDE DEF pc, a, l, polls
<1>7. l.requesting = (polls["current"].at # "idle")
  BY <1>4, <1>5
<1>8. Session(l)
  BY <1>0, <1>4 DEF Session, SameFrames
<1>9. View(l, polls, snap, writes, xterm, phase)
  <2>1. Published(l, snap) /\ Drawn(l, snap, writes, xterm, phase)
    BY <1>0, <1>4, SameView DEF View
  <2> QED
    BY <1>0, <1>4, <1>5, <1>7, <1>8, <2>1 DEF View, SameFrames
<1>10. CASE live' = l /\ poll' = polls /\ NoPublication
  BY <1>9, <1>10 DEF NoPublication
<1>11. CASE /\ StartLiveScreenRequest([l EXCEPT !.received = 0, !.damage = NoDamage], visible, polls)
            /\ NoPublication
  <2> DEFINE n == [l EXCEPT !.received = 0, !.damage = NoDamage]
  <2>1. /\ n \in Live /\ n.received = 0 /\ n.damage = NoDamage /\ n.requesting = FALSE
        /\ n.published = l.published /\ n.open = l.open /\ n.rendering = l.rendering
    BY <1>4, Bounds, Constants DEF Live
  <2>2. NoDamage.kind = "none" /\ NoDamage.rows = {}
    BY DEF NoDamage
  <2> HIDE DEF n
  <2>3. Session(n) /\ Published(n, snap) /\ Drawn(n, snap, writes, xterm, phase)
    BY <1>0, <1>3, <1>4, <2>1, <2>2 DEF Session, Published, Drawn, SameFrames, View
  <2>4. n.requesting = (polls["current"].at # "idle") /\ n.received <= Revision
    <3>1. n.requesting = (polls["current"].at # "idle")
      BY <1>5, <2>1
    <3>2. n.received <= Revision
      BY <1>0, <2>1, Bounds DEF PoolType
    <3> QED
      BY <3>1, <3>2
  <2>5. View(n, polls, snap, writes, xterm, phase)
    BY <1>0, <1>5, <2>1, <2>3, <2>4 DEF View
  <2> QED
    BY <1>11, <2>5, StartGood DEF NoPublication, n
<1>12. CASE /\ Mergeable(l, pc.observed, a) /\ poll' = polls
            /\ \/ m.rendering = 0 /\ m.published = 0 /\ PublishReceivedScreen(m)
               \/ live' = m /\ NoPublication
  <2>1. a.rev \in 1 .. Revision /\ log[a.rev] \in Screen /\ a.rev \in Revisions /\ a.rev # 0
    <3>1. a.rev \in 1 .. Revision
      BY <1>1 DEF Answered, a
    <3> QED
      BY <1>0, <3>1, Bounds DEF PoolType, Revisions, Revision
  <2>2. ~a.full => /\ l.received = pc.observed /\ l.received # 0 /\ l.rows = log[l.received]
                   /\ a.copies = CopiedRows(l.rows, log[a.rev])
                   /\ a.fresh = FreshRows(l.rows, log[a.rev])
    BY <1>1, <1>9, <1>12 DEF Mergeable, Answered, View, Published, a
  <2>3. a.full => a.fresh = log[a.rev]
    BY <1>1 DEF Answered, a
  <2>4. MergedRows(l, a) = log[a.rev]
    BY <1>1, <1>4, <2>1, <2>2, <2>3, MergeGivesScreen
  <2>5. DOMAIN a.copies \subseteq Rows /\ DOMAIN a.fresh \subseteq Rows
    BY <1>1 DEF Answer, PartOf
  <2>6. /\ MergedDamage(a) \in Damage
        /\ a.full => MergedDamage(a).kind = "full" /\ MergedDamage(a).rows = Rows
        /\ ~a.full => /\ MergedDamage(a).kind = "rows"
                      /\ MergedDamage(a).rows = DOMAIN a.copies \cup DOMAIN a.fresh
    BY <2>5 DEF MergedDamage, FullScreenDamage, Damage
  <2>7. \A r \in Rows : ~a.full /\ r \notin MergedDamage(a).rows => log[a.rev][r] = l.rows[r]
    BY <2>4, <2>6 DEF MergedRows
  <2>8. /\ m \in Live /\ m.received = a.rev /\ m.rows = log[a.rev] /\ m.damage = MergedDamage(a)
        /\ m.published = l.published /\ m.open = l.open /\ m.rendering = l.rendering
        /\ m.requesting = l.requesting
    BY <1>4, <2>1, <2>4, <2>6 DEF Live
  <2> HIDE DEF m
  <2>9. Session(m)
    BY <1>3, <1>4, <2>1, <2>6, <2>8 DEF Session, SameFrames
  <2>10. Published(m, snap)
    BY <1>3, <1>4, <1>9, <2>1, <2>2, <2>6, <2>7, <2>8 DEF Published, View, SameFrames
  <2>11. Drawn(m, snap, writes, xterm, phase)
    BY <1>3, <1>4, <1>9, <2>1, <2>2, <2>6, <2>7, <2>8 DEF Drawn, View, SameFrames
  <2>12. m.requesting = (polls["current"].at # "idle") /\ m.received <= Revision
    BY <1>7, <2>1, <2>8
  <2>13. View(m, polls, snap, writes, xterm, phase)
    BY <1>0, <1>5, <2>8, <2>9, <2>10, <2>11, <2>12 DEF View
  <2>14. CASE m.rendering = 0 /\ m.published = 0 /\ PublishReceivedScreen(m)
    <3>1. m.damage.kind # "none"
      BY <2>6, <2>8
    <3>2. MayPublish(m)
      BY <2>8, <2>9, <2>14, <3>1, NoDamageKind DEF MayPublish
    <3> QED
      BY <1>12, <2>13, <2>14, <3>2, PublishGood DEF PublishReceivedScreen
  <2>15. CASE live' = m /\ NoPublication
    BY <1>12, <2>13, <2>15 DEF NoPublication
  <2> QED
    BY <1>12, <2>14, <2>15
<1> QED
  BY <1>6, <1>10, <1>11, <1>12
(* The snapshot effect writes the frame React holds.                        *)
LEMMA EffectStep ==
  ASSUME IndInv, SnapshotEffect
  PROVE  View(live', poll', snap, writes', xterm, phase)
<1>0. /\ View(live, poll, snap, writes, xterm, phase) /\ live \in Live /\ Session(live)
      /\ Published(live, snap) /\ snap \in Snapshot /\ snap.rev <= Revision /\ writes \in Seq(Write)
  BY DEF IndInv, View
<1>1. CASE ~(LiveSnapshotCandidate /\ phase = "live")
  BY <1>0, <1>1 DEF SnapshotEffect
<1>2. CASE LiveSnapshotCandidate /\ phase = "live"
  <2> DEFINE w == Frame(snap)
             q == Append(writes, w)
  <2>1. q = writes' /\ MarkLiveScreenSubmitted(live, snap.rev, poll) /\ snap.rev # 0
    BY <1>2 DEF SnapshotEffect, LiveSnapshotCandidate
  <2>2. /\ w \in Write /\ w.rev = snap.rev /\ w.rows = snap.rows /\ w.damage = snap.damage
        /\ snap.rev \in Revisions /\ snap.damage.rows \subseteq Rows
    BY <1>0 DEF Frame, Write, Snapshot, Damage
  <2>3. live.received # 0 =>
           \A r \in w.damage.rows \ (IF live.published # 0 THEN snap.damage.rows
                                     ELSE live.damage.rows) : w.rows[r] = live.rows[r]
    <3>1. ASSUME live.received # 0, live.published = 0, NEW r \in snap.damage.rows \ live.damage.rows
          PROVE  snap.rows[r] = live.rows[r]
      BY <1>0, <2>1, <2>2, <3>1, NoDamageKind DEF Session, Published
    <3> QED
      BY <2>2, <3>1
  <2> HIDE DEF w
  <2>4. View(live, poll, snap, q, xterm, phase)
    BY <1>0, <2>2, <2>3, AppendGood
  <2>5. ASSUME live.received # 0, live.published # 0, NEW r \in Rows
        PROVE  Final(q, xterm, r, live.rows[r])
    <3>1. snap.rows = live.rows
      BY <1>0, <2>5 DEF Session, Published
    <3>2. r \notin snap.damage.rows => Final(writes, xterm, r, live.rows[r])
      BY <1>0, <1>2, <2>5 DEF View, Drawn
    <3> QED
      BY <1>0, <2>2, <3>1, <3>2, AppendFinal
  <2> HIDE DEF q
  <2>6. live.received # 0 /\ live.published # 0 => AllDrawn(live, q, xterm)
    BY <2>5 DEF AllDrawn
  <2> QED
    BY <2>1, <2>2, <2>4, <2>6, SubmitGood
<1> QED
  BY <1>1, <1>2

(* The latest frame is written whole when the view comes back to the bottom. *)
Whole(l, p, s, q, x) ==
    View(l, p, s, q, x, "live") /\ (l.received # 0 /\ l.published # 0 => AllDrawn(l, q, x))

(* A write of the whole last frame makes all that is pending end in that    *)
(* frame, whatever was drawn before it.                                     *)
LEMMA WholeGood ==
  ASSUME NEW l, NEW p, NEW s, NEW q, NEW x, NEW ph, View(l, p, s, q, x, ph),
         NEW n \in Revisions, NEW t,
         t = IF s.rev = 0 THEN q ELSE Append(q, WholeFrame(s, n))
  PROVE  Whole(l, p, s, t, x)
<1>0. /\ l \in Live /\ Session(l) /\ Published(l, s) /\ s \in Snapshot /\ s.rev <= Revision
      /\ q \in Seq(Write) /\ \A i \in 1 .. Len(q) : q[i].rev <= Revision
  BY DEF View
<1>1. CASE s.rev = 0
  <2>1. l.received # 0 => l.published = 0 /\ l.damage.rows = Rows
    BY <1>0, <1>1, NoDamageKind DEF Session, Published
  <2>2. t = q
    BY <1>1
  <2>3. Drawn(l, s, t, x, "live")
    BY <2>1, <2>2 DEF Drawn
  <2> QED
    BY <2>1, <2>2, <2>3 DEF View, Whole
<1>2. CASE s.rev # 0
  <2> DEFINE w == WholeFrame(s, n)
  <2>1. /\ w \in Write /\ w.rev = s.rev /\ w.rows = s.rows /\ w.damage.rows = Rows
    BY <1>0, Constants DEF WholeFrame, Frame, Write, Snapshot, FullScreenDamage
  <2> HIDE DEF w
  <2>2. t = Append(q, w)
    BY <1>2 DEF w
  <2>3. \A r \in Rows : Final(t, x, r, s.rows[r])
    BY <1>0, <2>1, <2>2, AppendFinal
  <2>4. l.received # 0 /\ l.published # 0 => s.rows = l.rows
    BY <1>0 DEF Session, Published
  <2>5. l.received # 0 /\ l.published = 0 => \A r \in Rows \ l.damage.rows : s.rows[r] = l.rows[r]
    BY <1>0, <1>2, NoDamageKind DEF Session, Published
  <2>6. Drawn(l, s, t, x, "live")
    BY <2>3, <2>4, <2>5 DEF Drawn
  <2>7. t \in Seq(Write) /\ \A i \in 1 .. Len(t) : t[i].rev <= Revision
    BY <1>0, <2>1, <2>2
  <2>8. l.received # 0 /\ l.published # 0 => AllDrawn(l, t, x)
    BY <2>3, <2>4 DEF AllDrawn
  <2> QED
    BY <2>6, <2>7, <2>8 DEF View, Whole
<1> QED
  BY <1>1, <1>2
(* resumeAtBottom: leaving the history draws the latest frame as a whole    *)
(* and asks for the next.                                                   *)
LEMMA ResumeStep ==
  ASSUME IndInv, ResumeAtBottom
  PROVE  View(live', poll', snap', writes', xterm, phase')
<1> DEFINE wanted == [live EXCEPT !.demand = TRUE]
           publishes == live.open /\ ~live.demand /\ visible /\ MayPublish(wanted)
           resumed == IF publishes
                      THEN [wanted EXCEPT !.damage = NoDamage, !.published = wanted.received]
                      ELSE wanted
           latest == IF publishes
                     THEN [rev |-> wanted.received, rows |-> wanted.rows, damage |-> wanted.damage]
                     ELSE snap
           starts == ~publishes /\ live.open /\ ~live.demand /\ MayRequest(wanted, visible)
           polls == IF starts THEN [poll EXCEPT !["current"] = SentPoll(wanted.received)] ELSE poll
           l == [resumed EXCEPT !.requesting = @ \/ starts]
<1>0. View(live, poll, snap, writes, xterm, phase) /\ live \in Live /\ seen \in Revisions
  BY Bounds DEF IndInv, View, Others, PoolType, Revisions
<1>1. /\ phase' = "live" /\ snap' = latest
      /\ writes' = IF latest.rev = 0 THEN writes ELSE Append(writes, WholeFrame(latest, seen))
      /\ IF ~live.open THEN UNCHANGED <<live, poll>> ELSE MarkLiveScreenSubmitted(l, seen, polls)
  BY DEF ResumeAtBottom
<1>2. View(wanted, poll, snap, writes, xterm, phase)
  BY <1>0, DemandGood
<1>3. wanted \in Live
  BY <1>2 DEF View
<1> HIDE DEF wanted
<1>4. View(resumed, poll, latest, writes, xterm, phase)
  <2>1. CASE publishes
    BY <1>2, <2>1, PublishGood
  <2>2. CASE ~publishes
    BY <1>2, <2>2
  <2> QED
    BY <2>1, <2>2
<1>5. View(l, polls, latest, writes, xterm, phase)
  <2>0. resumed \in Live
    BY <1>4 DEF View
  <2>1. CASE starts
    <3>1. resumed = wanted /\ MayRequest(wanted, visible) /\ ~publishes
      BY <2>1
    <3>2. l = [wanted EXCEPT !.requesting = TRUE]
      BY <1>3, <2>1, <3>1 DEF Live
    <3>3. polls = [poll EXCEPT !["current"] = SentPoll(wanted.received)]
      BY <2>1
    <3> HIDE DEF l, polls, resumed, latest, publishes, starts
    <3> QED
      BY <1>4, <3>1, <3>2, <3>3, RequestGood
  <2>2. CASE ~starts
    <3>1. polls = poll
      BY <2>2
    <3> HIDE DEF resumed, starts, polls
    <3>2. l = resumed
      BY <2>0, <2>2 DEF Live
    <3> QED
      BY <1>4, <3>1, <3>2
  <2> QED
    BY <2>1, <2>2
<1> HIDE DEF l, polls, resumed, latest, publishes, starts
<1>6. /\ View(l, polls, latest, writes', xterm, "live")
      /\ l.received # 0 /\ l.published # 0 => AllDrawn(l, writes', xterm)
  <2>1. /\ seen \in Revisions
        /\ writes' = IF latest.rev = 0 THEN writes ELSE Append(writes, WholeFrame(latest, seen))
    BY <1>0, <1>1
  <2>2. Whole(l, polls, latest, writes', xterm)
    BY <1>5, <2>1, WholeGood
  <2> QED
    BY <2>2 DEF Whole
<1>7. CASE live.open
  <2>1. MarkLiveScreenSubmitted(l, seen, polls)
    BY <1>1, <1>7
  <2>2. View(live', poll', latest, writes', xterm, "live")
    BY <1>0, <1>6, <2>1, SubmitGood
  <2> QED
    BY <1>1, <2>2
<1>8. CASE ~live.open
  <2>1. live' = live /\ poll' = poll
    BY <1>1, <1>8
  <2>2. latest = snap
    BY <1>8 DEF latest, publishes
  <2>3. View(live, poll, snap, writes', xterm, "live")
    BY <1>0, <1>1, <2>2, WholeGood DEF Whole
  <2> QED
    BY <1>1, <2>1, <2>2, <2>3
<1> QED
  BY <1>7, <1>8

(* A session that is closed, or has just been opened, shows nothing yet.     *)
LEMMA FreshGood ==
  ASSUME NEW l \in {Opened, Closed}, NEW p, NEW s, NEW q, NEW x, NEW ph,
         NEW k, NEW kp, NEW kh, View(k, kp, s, q, x, kh), PoolType,
         p \in [Slots -> Poll], \A t \in Slots : PollOK(p[t]), p["current"].at = "idle"
  PROVE  View(l, p, s, q, x, ph)
<1>1. /\ l \in Live /\ l.received = 0 /\ l.damage = NoDamage /\ l.published = 0
      /\ l.rendering = 0 /\ l.requesting = FALSE
  <2>1. /\ Opened.received = 0 /\ Opened.damage = NoDamage /\ Opened.published = 0
        /\ Opened.rendering = 0 /\ Opened.requesting = FALSE
    BY DEF Opened
  <2>2. /\ Closed.received = Opened.received /\ Closed.damage = Opened.damage
        /\ Closed.published = Opened.published /\ Closed.rendering = Opened.rendering
        /\ Closed.requesting = Opened.requesting
    BY Constants DEF Closed, Live
  <2> QED
    BY <2>1, <2>2, Constants
<1>2. NoDamage.kind = "none" /\ NoDamage.rows = {}
  BY DEF NoDamage
<1>3. Session(l) /\ Published(l, s) /\ Drawn(l, s, q, x, ph)
  BY <1>1, <1>2 DEF Session, Published, Drawn, View
<1>4. l.requesting = (p["current"].at # "idle")
  BY <1>1
<1>5. l.received <= Revision
  BY <1>1, Bounds DEF PoolType
<1> QED
  BY <1>1, <1>3, <1>4, <1>5 DEF View

(* handleVisibilityChange: pausing aborts the request, resuming publishes   *)
(* what is due and asks again.                                              *)
LEMMA VisibilityStep ==
  ASSUME IndInv, HandleVisibilityChange
  PROVE  View(live', poll', snap', writes, xterm, phase)
<1>0. /\ View(live, poll, snap, writes, xterm, phase) /\ live \in Live /\ Session(live) /\ PoolType
      /\ poll \in [Slots -> Poll] /\ \A t \in Slots : PollOK(poll[t])
  BY DEF IndInv, View
<1>1. CASE visible
  <2>1. /\ live' = IF live.open THEN PauseLiveScreen(live) ELSE live
        /\ poll' \in AbortedPolls /\ snap' = snap
    BY <1>1 DEF HandleVisibilityChange, NoPublication
  <2>2. poll' \in [Slots -> Poll] /\ (\A t \in Slots : PollOK(poll'[t])) /\ poll'["current"].at = "idle"
    BY <1>0, <2>1, AbortGood
  <2>3. CASE live.open
    BY <1>0, <2>1, <2>2, <2>3, PauseGood
  <2>4. CASE ~live.open
    <3>1. live.requesting = FALSE
      BY <1>0, <2>4 DEF Session, Live
    <3>2. live' = live
      BY <2>1, <2>4
    <3>3. live'.requesting = (poll'["current"].at # "idle")
      BY <2>2, <3>1, <3>2
    <3> QED
      BY <1>0, <2>1, <2>2, <3>2, <3>3 DEF View
  <2> QED
    BY <2>3, <2>4
<1>2. CASE ~visible
  <2>1. CASE live.open
    <3>1. ResumeLiveScreen(live, TRUE, poll)
      BY <1>2, <2>1 DEF HandleVisibilityChange
    <3> QED
      BY <1>0, <3>1, ResumeGood
  <2>2. CASE ~live.open
    BY <1>0, <1>2, <2>2 DEF HandleVisibilityChange, NoPublication
  <2> QED
    BY <2>1, <2>2
<1> QED
  BY <1>1, <1>2

(* Entering the history, applying a page of it, recovering the channel and  *)
(* opening the terminal.                                                    *)
LEMMA HistoryStep ==
  ASSUME IndInv, EnterHistory \/ ApplyHistory \/ RecoverChannel \/ OpenTerminal
  PROVE  View(live', poll', snap', writes', xterm', phase')
<1>0. /\ View(live, poll, snap, writes, xterm, phase) /\ live \in Live /\ Session(live) /\ PoolType
      /\ poll \in [Slots -> Poll] /\ (\A t \in Slots : PollOK(poll[t])) /\ writes \in Seq(Write)
  BY DEF IndInv, View
<1>1. View(live, poll, snap, writes, xterm, "history")
  BY <1>0 DEF View, Drawn
<1>2. CASE EnterHistory
  <2>1. phase' = "history" /\ snap' = snap /\ writes' = writes /\ xterm' = xterm
    BY <1>2 DEF EnterHistory
  <2>2. CASE live.open /\ live.demand
    <3> DEFINE l == [live EXCEPT !.demand = FALSE]
    <3>1. live' = PauseLiveScreen(l) /\ poll' \in AbortedPolls
      BY <1>2, <2>2 DEF EnterHistory
    <3>2. View(l, poll, snap, writes, xterm, "history")
      BY <1>1, DemandGood
    <3> HIDE DEF l
    <3>3. /\ poll' \in [Slots -> Poll] /\ \A t \in Slots : PollOK(poll'[t])
          /\ poll'["current"].at = "idle"
      BY <1>0, <3>1, AbortGood
    <3> QED
      BY <2>1, <3>1, <3>2, <3>3, PauseGood
  <2>3. CASE ~(live.open /\ live.demand)
    BY <1>1, <1>2, <2>1, <2>3 DEF EnterHistory
  <2> QED
    BY <2>2, <2>3
<1>3. CASE ApplyHistory
  <2>1. /\ phase = "history" /\ phase' = phase /\ writes' = Append(writes, HistoryPage)
        /\ UNCHANGED <<live, poll, snap, xterm>>
    BY <1>3 DEF ApplyHistory, poolVars
  <2>2. HistoryPage \in Write /\ HistoryPage.rev <= Revision
    BY <1>0, Constants, Bounds DEF HistoryPage, Write, PoolType
  <2>3. View(live, poll, snap, Append(writes, HistoryPage), xterm, phase)
    BY <1>0, <2>1, <2>2, AppendGood
  <2> QED
    BY <2>1, <2>3
<1>4. CASE RecoverChannel
  <2>1. live' = Closed /\ poll' \in AbortedPolls /\ UNCHANGED <<snap, writes, xterm>>
    BY <1>4 DEF RecoverChannel
  <2>2. poll' \in [Slots -> Poll] /\ (\A t \in Slots : PollOK(poll'[t])) /\ poll'["current"].at = "idle"
    BY <1>0, <2>1, AbortGood
  <2> QED
    BY <1>0, <2>1, <2>2, FreshGood
<1>5. CASE OpenTerminal
  <2>1. /\ ~live.open /\ StartLiveScreenRequest(Opened, visible, poll)
        /\ UNCHANGED <<snap, writes, xterm, phase>>
    BY <1>5 DEF OpenTerminal
  <2>2. ~live.requesting
    BY <1>0, <2>1 DEF Session
  <2>3. poll["current"].at = "idle"
    BY <1>0, <2>2, Zenon DEF View
  <2>4. View(Opened, poll, snap, writes, xterm, phase)
    BY <1>0, <2>3, FreshGood
  <2> QED
    BY <2>1, <2>4, StartGood
<1> QED
  BY <1>2, <1>3, <1>4, <1>5

(* A write that is parsed and reported: markLiveScreenCompleted may publish *)
(* the frame behind it.                                                     *)
LEMMA ParseStep ==
  ASSUME IndInv, ParseWrite
  PROVE  View(live', poll', snap', writes', xterm', phase')
<1> DEFINE w == Head(writes)
<1>1. /\ writes # <<>> /\ writes' = Tail(writes) /\ UNCHANGED <<poll, phase>>
      /\ xterm' = [r \in Rows |-> IF r \in w.damage.rows THEN w.rows[r] ELSE xterm[r]]
      /\ IF w.reports = 0 THEN UNCHANGED live /\ NoPublication ELSE MarkLiveScreenCompleted(w.reports)
  BY DEF ParseWrite
<1>2. View(live, poll, snap, Tail(writes),
           [r \in Rows |-> IF r \in Head(writes).damage.rows THEN Head(writes).rows[r] ELSE xterm[r]],
           phase)
  BY <1>1, ParseGood DEF IndInv
<1>3. View(live, poll, snap, writes', xterm', phase)
  BY <1>1, <1>2
<1>4. CASE w.reports = 0
  BY <1>1, <1>3, <1>4 DEF NoPublication
<1>5. CASE w.reports # 0
  BY <1>1, <1>3, <1>5, CompleteGood
<1> QED
  BY <1>4, <1>5
(***************************************************************************)
(* The pool.                                                               *)
(***************************************************************************)

(* The view does not notice that screens are added to the log.              *)
LEMMA GrownView ==
  ASSUME PoolType, Revision' >= Revision, Revision' \in Nat,
         \A i \in 1 .. Revision : log'[i] = log[i],
         View(live', poll', snap', writes', xterm', phase')
  PROVE  View(live, poll, snap, writes, xterm, phase)'
<1> DEFINE l == live'
           p == poll'
           s == snap'
           q == writes'
<1>0. Revision \in Nat /\ Revision' \in Nat /\ Revision <= Revision' /\ Revisions \subseteq Nat
  BY Bounds DEF PoolType
<1>1. /\ l \in Live /\ l.received <= Revision /\ l.received \in Nat
      /\ s \in Snapshot /\ s.rev <= Revision /\ s.rev \in Nat
      /\ q \in Seq(Write) /\ \A i \in 1 .. Len(q) : q[i].rev <= Revision /\ q[i].rev \in Nat
  <2>1. \A w \in Write : w.rev \in Nat
    BY <1>0 DEF Write
  <2>2. /\ l \in Live /\ l.received <= Revision /\ s \in Snapshot /\ s.rev <= Revision
        /\ q \in Seq(Write) /\ \A i \in 1 .. Len(q) : q[i].rev <= Revision
    BY DEF View
  <2>3. l.received \in Nat /\ s.rev \in Nat
    BY <1>0, <2>2 DEF Live, Snapshot
  <2>4. \A i \in 1 .. Len(q) : q[i].rev \in Nat
    BY <2>1, <2>2
  <2> QED
    BY <2>2, <2>3, <2>4
<1>2. l.received <= Revision' /\ s.rev <= Revision' /\ \A i \in 1 .. Len(q) : q[i].rev <= Revision'
  BY <1>0, <1>1
<1>3. Published(live, snap)'
  <2>1. /\ l.received # 0 => log'[l.received] = log[l.received]
        /\ s.rev # 0 => log'[s.rev] = log[s.rev]
    BY <1>0, <1>1
  <2> QED
    BY <2>1 DEF View, Published
<1>4. ASSUME NEW t \in Slots PROVE PollOK(poll[t])'
  <2>1. p[t] \in Poll /\ PollOK(p[t])
    BY DEF View
  <2>2. /\ p[t].observed \in Nat /\ p[t].observed <= Revision
        /\ p[t].base \in {0, p[t].observed} /\ Len(p[t].wakes) <= WakeBuffer
    BY <1>0, <2>1 DEF Poll, PollOK
  <2>3. Answered(poll[t])'
    <3>1. SUFFICES ASSUME p[t].at \in {"offering", "answered"}
                   PROVE  Answered(poll[t])'
      BY DEF Answered
    <3>2. p[t].answer.rev \in 1 .. Revision
      BY <2>1, <3>1 DEF PollOK, Answered
    <3>3. log'[p[t].answer.rev] = log[p[t].answer.rev] /\ p[t].answer.rev \in 1 .. Revision'
      BY <1>0, <3>2
    <3>4. p[t].observed # 0 => log'[p[t].observed] = log[p[t].observed]
      BY <1>0, <2>2
    <3> QED
      BY <2>1, <3>1, <3>3, <3>4 DEF PollOK, Answered
  <2> QED
    BY <1>0, <2>2, <2>3 DEF PollOK
<1>5. Session(live)' /\ Drawn(live, snap, writes, xterm, phase)'
  BY DEF View, Session, Drawn, Final, Covers
<1> QED
  BY <1>1, <1>2, <1>3, <1>4, <1>5 DEF View

(* Nor what becomes of a poll, unless it begins or ends.                     *)
LEMMA PollView ==
  ASSUME View(live, poll, snap, writes, xterm, phase),
         NEW ps \in [Slots -> Poll], \A t \in Slots : PollOK(ps[t]),
         ps["current"].at = "idle" <=> poll["current"].at = "idle"
  PROVE  View(live, ps, snap, writes, xterm, phase)
  BY DEF View

(* The delta between two screens names rows.                                *)
LEMMA DeltaRows ==
  ASSUME NEW b \in Screen, NEW c \in Screen
  PROVE  CopiedRows(b, c) \in PartOf(Rows) /\ FreshRows(b, c) \in PartOf(Contents)
<1>1. FreshRows(b, c) \in PartOf(Contents)
  <2> DEFINE D == {d \in Rows : \A i \in Rows : b[i] # c[d]}
  <2>1. FreshRows(b, c) \in [D -> Contents]
    BY DEF FreshRows, Screen, Contents
  <2>2. D \in SUBSET Rows
    OBVIOUS
  <2> QED
    BY <2>1, <2>2 DEF PartOf
<1>2. CopiedRows(b, c) \in PartOf(Rows)
  <2> DEFINE D == {d \in Rows : b[d] # c[d] /\ \E i \in Rows : b[i] = c[d]}
             First(d) == CHOOSE i \in Rows : /\ b[i] = c[d]
                                             /\ \A o \in Rows : b[o] = c[d] => i <= o
  <2>1. ASSUME NEW d \in D PROVE First(d) \in Rows
    <3>1. \E i \in Rows : b[i] = c[d] /\ \A o \in Rows : b[o] = c[d] => i <= o
      BY FirstPlace
    <3> QED
      BY <3>1, Zenon
  <2>2. CopiedRows(b, c) = [d \in D |-> First(d)]
    BY DEF CopiedRows
  <2> HIDE DEF First
  <2>3. CopiedRows(b, c) \in [D -> Rows] /\ D \in SUBSET Rows
    BY <2>1, <2>2
  <2> QED
    BY <2>3 DEF PartOf
<1> QED
  BY <1>1, <1>2

(* nativeScreenSnapshotSinceBaseline answers with the pool's screen, or     *)
(* with the delta from the screen the client has observed.                  *)
LEMMA SnapshotGood ==
  ASSUME PoolType, NEW p \in Poll, PollOK(p)
  PROVE  LET a == SnapshotSinceBaseline(p.observed, p.base)
         IN  /\ a \in Answer /\ a.rev \in 1 .. Revision
             /\ a.full => a.fresh = log[a.rev]
             /\ ~a.full => /\ p.observed # 0
                           /\ a.copies = CopiedRows(log[p.observed], log[a.rev])
                           /\ a.fresh = FreshRows(log[p.observed], log[a.rev])
<1> DEFINE full == p.base = 0 \/ p.base # p.observed \/ p.base < epoch
           a == SnapshotSinceBaseline(p.observed, p.base)
<1>0. /\ Revision \in 1 .. Revision /\ Revision \in Revisions /\ log[Revision] \in Screen
      /\ p.observed \in Nat /\ p.observed <= Revision
  BY Bounds DEF PoolType, Revision, Revisions, Poll, PollOK
<1>1. /\ a.rev = Revision /\ a.full = full
      /\ a.copies = IF full THEN <<>> ELSE CopiedRows(log[p.base], log[Revision])
      /\ a.fresh = IF full THEN log[Revision] ELSE FreshRows(log[p.base], log[Revision])
      /\ a = [rev |-> Revision, full |-> full,
              copies |-> IF full THEN <<>> ELSE CopiedRows(log[p.base], log[Revision]),
              fresh |-> IF full THEN log[Revision] ELSE FreshRows(log[p.base], log[Revision])]
  BY DEF SnapshotSinceBaseline
<1> HIDE DEF a
<1>2. CASE full
  <2>1. log[Revision] \in PartOf(Contents)
    BY <1>0 DEF PartOf, Screen, Contents
  <2>2. a \in Answer
    BY <1>0, <1>1, <1>2, <2>1, NoRows DEF Answer
  <2> QED
    BY <1>0, <1>1, <1>2, <2>2 DEF a
<1>3. CASE ~full
  <2>1. p.observed # 0 /\ p.base = p.observed /\ log[p.base] \in Screen
    BY <1>0, <1>3 DEF PoolType, Revision
  <2>2. a \in Answer
    BY <1>0, <1>1, <1>3, <2>1, DeltaRows DEF Answer
  <2> QED
    BY <1>0, <1>1, <1>3, <2>1, <2>2 DEF a
<1> QED
  BY <1>2, <1>3
(* A poll takes a step.                                                     *)
LEMMA OneSlot ==
  ASSUME View(live, poll, snap, writes, xterm, phase), NEW s \in Slots, NEW p \in Poll, PollOK(p),
         s = "current" => (p.at = "idle" <=> poll[s].at = "idle"),
         poll' = [poll EXCEPT ![s] = p]
  PROVE  View(live, poll', snap, writes, xterm, phase)
<1>1. poll \in [Slots -> Poll] /\ \A t \in Slots : PollOK(poll[t])
  BY DEF View
<1>2. poll' \in [Slots -> Poll] /\ \A t \in Slots : PollOK(poll'[t])
  BY <1>1
<1>3. poll'["current"].at = "idle" <=> poll["current"].at = "idle"
  BY <1>1, SlotSet
<1> QED
  BY <1>2, <1>3, PollView

(* The pool's work on a request never disturbs what the client has, and     *)
(* answers it in order.                                                     *)
LEMMA PollStepView ==
  ASSUME IndInv, NEW s \in Slots, PollStep(s) \/ CancelStale
  PROVE  View(live, poll', snap, writes, xterm, phase)
<1>0. /\ View(live, poll, snap, writes, xterm, phase) /\ PoolType
      /\ poll \in [Slots -> Poll] /\ poll[s] \in Poll /\ PollOK(poll[s])
  BY DEF IndInv, View
<1>1. CASE DispatchLiveScreenNext(s)
  <2> DEFINE n == poll[s].observed
             p == [poll[s] EXCEPT !.base = AcquiredBase(n),
                                  !.at = IF n \in 1 .. Revision THEN "subscribed" ELSE "ready"]
  <2>1. poll' = [poll EXCEPT ![s] = p] /\ poll[s].at = "sent"
    BY <1>0, <1>1 DEF DispatchLiveScreenNext
  <2>2. AcquiredBase(n) \in {0, n} /\ n \in Revisions
    BY <1>0 DEF AcquiredBase, Poll
  <2>3. /\ p \in Poll /\ p.observed = n /\ p.base = AcquiredBase(n)
        /\ p.wakes = poll[s].wakes /\ p.at \in {"subscribed", "ready"}
    BY <1>0, <2>2, Bounds DEF Poll, PollStates
  <2> HIDE DEF p
  <2>4. PollOK(p)
    BY <1>0, <2>2, <2>3 DEF PollOK, Answered
  <2> QED
    BY <1>0, <2>1, <2>3, <2>4, OneSlot
<1>2. CASE CheckRevision(s)
  <2> DEFINE p == [poll[s] EXCEPT !.at = IF Revision > poll[s].observed THEN "ready" ELSE "waiting"]
  <2>1. poll' = [poll EXCEPT ![s] = p] /\ poll[s].at = "subscribed"
    BY <1>0, <1>2 DEF CheckRevision
  <2>2. /\ p \in Poll /\ p.observed = poll[s].observed /\ p.base = poll[s].base
        /\ p.wakes = poll[s].wakes /\ p.at \in {"ready", "waiting"}
    BY <1>0 DEF Poll, PollStates
  <2> HIDE DEF p
  <2>3. PollOK(p)
    BY <1>0, <2>2 DEF PollOK, Answered
  <2> QED
    BY <1>0, <2>1, <2>2, <2>3, OneSlot
<1>3. CASE ReceiveWake(s)
  <2> DEFINE p == [poll[s] EXCEPT !.wakes = Tail(poll[s].wakes),
                                  !.at = IF Head(poll[s].wakes) > poll[s].observed
                                         THEN "ready" ELSE "waiting"]
  <2>1. poll' = [poll EXCEPT ![s] = p] /\ poll[s].at = "waiting" /\ poll[s].wakes # <<>>
    BY <1>0, <1>3 DEF ReceiveWake
  <2>2. /\ poll[s].wakes \in Seq(Revisions) /\ Len(poll[s].wakes) <= WakeBuffer
    BY <1>0 DEF Poll, PollOK
  <2>3. /\ Tail(poll[s].wakes) \in Seq(Revisions) /\ Len(Tail(poll[s].wakes)) <= WakeBuffer
    BY <2>1, <2>2, Bounds
  <2>4. /\ p \in Poll /\ p.observed = poll[s].observed /\ p.base = poll[s].base
        /\ p.wakes = Tail(poll[s].wakes) /\ p.at \in {"ready", "waiting"}
    BY <1>0, <2>3 DEF Poll, PollStates
  <2> HIDE DEF p
  <2>5. PollOK(p)
    BY <1>0, <2>3, <2>4 DEF PollOK, Answered
  <2> QED
    BY <1>0, <2>1, <2>4, <2>5, OneSlot
<1>4. CASE TakeSnapshot(s)
  <2> DEFINE a == SnapshotSinceBaseline(poll[s].observed, poll[s].base)
             p == [poll[s] EXCEPT !.at = "offering", !.wakes = <<>>, !.answer = a]
  <2>1. poll' = [poll EXCEPT ![s] = p] /\ poll[s].at = "ready"
    BY <1>0, <1>4 DEF TakeSnapshot
  <2>2. /\ a \in Answer /\ a.rev \in 1 .. Revision
        /\ a.full => a.fresh = log[a.rev]
        /\ ~a.full => /\ poll[s].observed # 0
                      /\ a.copies = CopiedRows(log[poll[s].observed], log[a.rev])
                      /\ a.fresh = FreshRows(log[poll[s].observed], log[a.rev])
    BY <1>0, SnapshotGood
  <2> HIDE DEF a
  <2>3. /\ p \in Poll /\ p.observed = poll[s].observed /\ p.base = poll[s].base
        /\ p.wakes = <<>> /\ p.at = "offering" /\ p.answer = a
    BY <1>0, <2>2, EmptySeq DEF Poll, PollStates
  <2> HIDE DEF p
  <2>4. Answered(p)
    BY <2>2, <2>3 DEF Answered
  <2>5. PollOK(p)
    <3>1. Len(<<>>) = 0
      OBVIOUS
    <3> QED
      BY <1>0, <2>3, <2>4, <3>1, Bounds DEF PollOK
  <2> QED
    BY <1>0, <2>1, <2>3, <2>5, OneSlot
<1>5. CASE OfferLiveScreenBaseline(s)
  <2> DEFINE p == IF s = "stale" THEN NoPoll ELSE [poll[s] EXCEPT !.at = "answered", !.base = 0]
  <2>1. poll' = [poll EXCEPT ![s] = p] /\ poll[s].at = "offering"
    BY <1>0, <1>5 DEF OfferLiveScreenBaseline
  <2>2. CASE s = "stale"
    BY <1>0, <2>1, <2>2, NoPollOK, OneSlot
  <2>3. CASE s # "stale"
    <3>1. /\ p \in Poll /\ p.observed = poll[s].observed /\ p.base = 0
          /\ p.wakes = poll[s].wakes /\ p.at = "answered" /\ p.answer = poll[s].answer
      BY <1>0, <2>3, Bounds DEF Poll, PollStates
    <3> HIDE DEF p
    <3>2. Answered(p)
      BY <1>0, <2>1, <3>1 DEF Answered, PollOK
    <3>3. PollOK(p)
      BY <1>0, <3>1, <3>2 DEF PollOK
    <3> QED
      BY <1>0, <2>1, <3>1, <3>3, OneSlot
  <2> QED
    BY <2>2, <2>3
<1>6. CASE CancelStale
  <2>1. poll' = [poll EXCEPT !["stale"] = NoPoll]
    BY <1>6 DEF CancelStale
  <2> QED
    BY <1>0, <2>1, NoPollOK, SlotSet, OneSlot
<1> QED
  BY <1>1, <1>2, <1>3, <1>4, <1>5, <1>6 DEF PollStep

(* The broker wakes the requests that wait; the client is not concerned.    *)
LEMMA PublishView ==
  ASSUME IndInv, NEW w \in Writers, PublishLiveInvalidated(w)
  PROVE  View(live, poll', snap, writes, xterm, phase)
<1>0. /\ View(live, poll, snap, writes, xterm, phase) /\ PoolType
      /\ poll \in [Slots -> Poll] /\ \A t \in Slots : PollOK(poll[t])
  BY DEF IndInv, View
<1>1. poll' = [t \in Slots |-> Enqueued(poll[t], unpublished[w])]
  BY DEF PublishLiveInvalidated
<1>2. unpublished[w] \in Revisions
  BY <1>0, Bounds DEF PoolType, Revisions
<1>3. ASSUME NEW t \in Slots
      PROVE  /\ poll'[t] \in Poll /\ PollOK(poll'[t]) /\ poll'[t].at = poll[t].at
  <2>1. poll'[t] = Enqueued(poll[t], unpublished[w])
    BY <1>1
  <2>2. CASE poll[t].at \in Listening /\ Len(poll[t].wakes) < WakeBuffer
    <3> DEFINE p == [poll[t] EXCEPT !.wakes = Append(poll[t].wakes, unpublished[w])]
    <3>0. poll[t] \in Poll /\ PollOK(poll[t]) /\ poll[t].wakes \in Seq(Revisions)
      BY <1>0 DEF Poll
    <3>1. poll'[t] = p
      BY <2>1, <2>2 DEF Enqueued
    <3>2. /\ Append(poll[t].wakes, unpublished[w]) \in Seq(Revisions)
          /\ Len(Append(poll[t].wakes, unpublished[w])) <= WakeBuffer
      BY <1>2, <2>2, <3>0, Bounds
    <3>3. /\ p \in Poll /\ p.observed = poll[t].observed /\ p.base = poll[t].base
          /\ p.wakes = Append(poll[t].wakes, unpublished[w]) /\ p.at = poll[t].at
      BY <3>0, <3>2 DEF Poll
    <3> HIDE DEF p
    <3>4. PollOK(p)
      BY <2>2, <3>0, <3>2, <3>3 DEF PollOK, Answered, Listening
    <3> QED
      BY <3>1, <3>3, <3>4
  <2>3. CASE ~(poll[t].at \in Listening /\ Len(poll[t].wakes) < WakeBuffer)
    BY <1>0, <2>1, <2>3 DEF Enqueued
  <2> QED
    BY <2>2, <2>3
<1>4. poll' \in [Slots -> Poll]
  BY <1>1, <1>3
<1> QED
  BY <1>0, <1>3, <1>4, SlotSet, PollView
(* The cache counts one for each of its two screens.                        *)
Held(c, o) == {t \in {"confirmed", "offered"} : IF t = "confirmed" THEN c # 0 ELSE o # 0}

(* The baselines of the cache are counted one by one.                       *)
LEMMA ScreensCounted ==
  ASSUME NEW c, NEW o
  PROVE  Cardinality(Held(c, o)) = (IF c # 0 THEN 1 ELSE 0) + (IF o # 0 THEN 1 ELSE 0)
<1>1. CASE c # 0 /\ o # 0
  <2>1. Held(c, o) = {"confirmed", "offered"}
    BY <1>1 DEF Held
  <2>2. Cardinality({"confirmed", "offered"}) = 2
    <3>1. IsFiniteSet({"confirmed"}) /\ Cardinality({"confirmed"}) = 1
      BY FS_Singleton
    <3>2. Cardinality({"confirmed"} \cup {"offered"}) = Cardinality({"confirmed"}) + 1
      BY <3>1, FS_AddElement
    <3>3. {"confirmed"} \cup {"offered"} = {"confirmed", "offered"}
      OBVIOUS
    <3> QED
      BY <3>1, <3>2, <3>3
  <2> QED
    BY <1>1, <2>1, <2>2
<1>2. CASE c # 0 /\ o = 0
  <2>1. Held(c, o) = {"confirmed"}
    BY <1>2 DEF Held
  <2> QED
    BY <1>2, <2>1, FS_Singleton
<1>3. CASE c = 0 /\ o # 0
  <2>1. Held(c, o) = {"offered"}
    BY <1>3 DEF Held
  <2> QED
    BY <1>3, <2>1, FS_Singleton
<1>4. CASE c = 0 /\ o = 0
  <2>1. Held(c, o) = {}
    BY <1>4 DEF Held
  <2> QED
    BY <1>4, <2>1, FS_EmptySet
<1> QED
  BY <1>1, <1>2, <1>3, <1>4

Charge == (IF confirmed # 0 THEN 1 ELSE 0) + (IF offered # 0 THEN 1 ELSE 0)
OnBooks == charged = Charge /\ charged <= CacheBytes

(* The charge of the cache in the form the steps use.                       *)
LEMMA ChargedParts == BaselineCharged <=> OnBooks
<1>1. BaselineCharged <=> charged = Cardinality(Held(confirmed, offered)) /\ charged <= CacheBytes
  BY DEF BaselineCharged, Held
<1> QED
  BY <1>1, ScreensCounted DEF OnBooks, Charge

(* What the cache holds is what it is charged for.                          *)
LEMMA ChargedStep ==
  ASSUME IndInv, PoolNext
  PROVE  BaselineCharged'
<1>0. PoolType /\ charged = Charge /\ charged <= CacheBytes /\ CacheBytes \in Nat
  BY ChargedParts, Bounds DEF IndInv, OnBooks
<1>b. OnBooks' => BaselineCharged'
  BY ChargedParts, PTL
<1> SUFFICES charged' = Charge' /\ charged' <= CacheBytes
  BY <1>b DEF OnBooks
<1>1. confirmed \in Nat /\ offered \in Nat /\ charged \in Nat
  BY <1>0 DEF PoolType
<1>2. CASE UNCHANGED <<confirmed, offered, charged>>
  BY <1>0, <1>2 DEF Charge
<1>3. ASSUME NEW s \in Slots, DispatchLiveScreenNext(s)
      PROVE  charged' = Charge' /\ charged' <= CacheBytes
  BY <1>0, <1>1, <1>3
  DEF DispatchLiveScreenNext, Charge, AfterPromotion, Promotes, Replaced
<1>4. ASSUME NEW s \in Slots, OfferLiveScreenBaseline(s)
      PROVE  charged' = Charge' /\ charged' <= CacheBytes
  <2>1. poll[s].answer.rev \in 1 .. Revision
    BY <1>4 DEF IndInv, View, PollOK, Answered, OfferLiveScreenBaseline
  <2>2. poll[s].answer.rev # 0
    BY <1>0, <2>1 DEF PoolType
  <2> QED
    BY <1>0, <1>1, <1>4, <2>2
    DEF OfferLiveScreenBaseline, Charge, HeldAfterDrop, Replaces
<1>5. CASE ExpireConfirmed \/ ExpireOffered
  BY <1>0, <1>1, <1>5 DEF ExpireConfirmed, ExpireOffered, Charge
<1> QED
  BY <1>2, <1>3, <1>4, <1>5
  DEF PoolNext, PollStep, Output, Reset, PublishLiveInvalidated, CheckRevision, ReceiveWake,
      TakeSnapshot, CancelStale

(* A screen is added to the log, or the log stays.                          *)
LEMMA LogStep ==
  ASSUME IndInv, PoolNext
  PROVE  /\ PoolType'
         /\ Revision' \in Nat /\ Revision' >= Revision
         /\ \A i \in 1 .. Revision : log'[i] = log[i]
<1>0. PoolType /\ Revision \in Nat /\ Revision >= 1 /\ Revision <= MaxRevision
  BY Bounds DEF IndInv, PoolType
<1>1. ASSUME NEW scr \in Screen, Revision < MaxRevision, log' = Append(log, scr),
             epoch' \in {epoch, Revision + 1}, NEW w \in Writers, NEW n \in {0, Revision + 1},
             unpublished' = [unpublished EXCEPT ![w] = n], UNCHANGED <<confirmed, offered, charged>>
      PROVE  /\ PoolType' /\ Revision' \in Nat /\ Revision' >= Revision
             /\ \A i \in 1 .. Revision : log'[i] = log[i]
  <2>1. /\ log' \in Seq(Screen) /\ Revision' = Revision + 1
        /\ \A i \in 1 .. Revision : log'[i] = log[i]
    BY <1>0, <1>1 DEF PoolType, Revision
  <2>2. /\ Revision' \in 1 .. MaxRevision /\ epoch' \in 1 .. Revision'
        /\ confirmed' \in 0 .. Revision' /\ offered' \in 0 .. Revision' /\ charged' \in Nat
    BY <1>0, <1>1, <2>1, Bounds DEF PoolType
  <2>3. unpublished' \in [Writers -> 0 .. Revision']
    BY <1>0, <1>1, <2>1 DEF PoolType
  <2> QED
    BY <1>0, <2>1, <2>2, <2>3 DEF PoolType
<1>2. ASSUME NEW scr \in NextScreens, NEW b \in BOOLEAN, Output(scr, b)
      PROVE  /\ PoolType' /\ Revision' \in Nat /\ Revision' >= Revision
             /\ \A i \in 1 .. Revision : log'[i] = log[i]
  <2>1. log[Revision] \in Screen /\ NumRows + Revision \in Contents /\ Revision < MaxRevision
    BY <1>0, <1>2, Bounds DEF PoolType, Revision, Contents, Output
  <2>2. \A r \in Rows : r = NumRows \/ r + 1 \in Rows
    BY Bounds DEF Rows
  <2>3. scr \in Screen
    <3>1. CASE scr = log[Revision]
      BY <2>1, <3>1
    <3>2. CASE \E r \in Rows : scr = [log[Revision] EXCEPT ![r] = NumRows + Revision]
      BY <2>1, <3>2 DEF Screen, Contents
    <3>3. CASE scr = [r \in Rows |-> IF r = NumRows THEN NumRows + Revision ELSE log[Revision][r + 1]]
      BY <2>1, <2>2, <3>3 DEF Screen, Contents
    <3> QED
      BY <3>1, <3>2, <3>3 DEF NextScreens
  <2> DEFINE n == IF b THEN 0 ELSE Revision + 1
  <2>4. /\ log' = Append(log, scr) /\ epoch' = epoch /\ n \in {0, Revision + 1}
        /\ unpublished' = [unpublished EXCEPT !["output"] = n]
        /\ UNCHANGED <<confirmed, offered, charged>> /\ "output" \in Writers
    BY <1>2 DEF Output, Writers
  <2> HIDE DEF n
  <2> QED
    BY <1>1, <2>1, <2>3, <2>4
<1>3. CASE Reset
  <2> DEFINE scr == [r \in Rows |-> NumRows + Revision]
  <2>1. NumRows + Revision \in Contents /\ Revision < MaxRevision
    BY <1>0, <1>3, Bounds DEF Contents, Reset
  <2>2. scr \in Screen
    BY <2>1 DEF Screen, Contents
  <2>3. /\ log' = Append(log, scr) /\ epoch' = Revision + 1
        /\ unpublished' = [unpublished EXCEPT !["reset"] = Revision + 1]
        /\ UNCHANGED <<confirmed, offered, charged>> /\ "reset" \in Writers
    BY <1>3 DEF Reset, Writers
  <2> HIDE DEF scr
  <2> QED
    BY <1>1, <2>1, <2>2, <2>3
<1>4. ASSUME UNCHANGED <<log, epoch>>, unpublished' \in [Writers -> 0 .. Revision],
             confirmed' \in 0 .. Revision, offered' \in 0 .. Revision, charged' \in Nat
      PROVE  /\ PoolType' /\ Revision' \in Nat /\ Revision' >= Revision
             /\ \A i \in 1 .. Revision : log'[i] = log[i]
  BY <1>0, <1>4 DEF PoolType, Revision
<1>5. ASSUME NEW w \in Writers, PublishLiveInvalidated(w)
      PROVE  UNCHANGED <<log, epoch, confirmed, offered, charged>>
             /\ unpublished' \in [Writers -> 0 .. Revision]
  BY <1>0, <1>5 DEF PublishLiveInvalidated, PoolType
<1>6. charged' \in Nat
  <2>1. BaselineCharged'
    BY ChargedStep
  <2>2. OnBooks'
    BY <2>1, ChargedParts, PTL
  <2> QED
    BY <2>2 DEF OnBooks, Charge
<1>7. ASSUME NEW s \in Slots, DispatchLiveScreenNext(s)
      PROVE  /\ UNCHANGED <<log, epoch, unpublished>>
             /\ confirmed' \in 0 .. Revision /\ offered' \in 0 .. Revision
  BY <1>0, <1>7 DEF DispatchLiveScreenNext, AfterPromotion, PoolType
<1>8. ASSUME NEW s \in Slots, OfferLiveScreenBaseline(s)
      PROVE  /\ UNCHANGED <<log, epoch, unpublished>>
             /\ confirmed' \in 0 .. Revision /\ offered' \in 0 .. Revision
  <2>1. poll[s].answer.rev \in 1 .. Revision
    BY <1>8 DEF IndInv, View, PollOK, Answered, OfferLiveScreenBaseline
  <2> QED
    BY <1>0, <1>8, <2>1 DEF OfferLiveScreenBaseline, PoolType
<1>9. ASSUME \/ \E s \in Slots : CheckRevision(s) \/ ReceiveWake(s) \/ TakeSnapshot(s)
             \/ CancelStale \/ ExpireConfirmed \/ ExpireOffered
      PROVE  /\ UNCHANGED <<log, epoch, unpublished>>
             /\ confirmed' \in {confirmed, 0} /\ offered' \in {offered, 0}
  BY <1>9 DEF CheckRevision, ReceiveWake, TakeSnapshot, CancelStale, ExpireConfirmed, ExpireOffered
<1>10. unpublished \in [Writers -> 0 .. Revision] /\ confirmed \in 0 .. Revision /\ offered \in 0 .. Revision
  BY <1>0 DEF PoolType
<1>11. 0 \in 0 .. Revision
  BY <1>0
<1>12. CASE \E w \in Writers : PublishLiveInvalidated(w)
  BY <1>4, <1>5, <1>6, <1>10, <1>12
<1>13. CASE \E s \in Slots : DispatchLiveScreenNext(s) \/ OfferLiveScreenBaseline(s)
  BY <1>4, <1>6, <1>7, <1>8, <1>10, <1>13
<1>14. CASE \/ \E s \in Slots : CheckRevision(s) \/ ReceiveWake(s) \/ TakeSnapshot(s)
            \/ CancelStale \/ ExpireConfirmed \/ ExpireOffered
  BY <1>4, <1>6, <1>9, <1>10, <1>11, <1>14
<1> QED
  BY <1>2, <1>3, <1>12, <1>13, <1>14 DEF PoolNext, PollStep
(***************************************************************************)
(* The invariant and the theorems.                                          *)
(***************************************************************************)

(* Every step of the pool preserves the inductive invariant.                *)
LEMMA PoolStep ==
  ASSUME IndInv, PoolNext, UNCHANGED viewVars
  PROVE  IndInv'
<1>0. /\ View(live, poll, snap, writes, xterm, phase) /\ PoolType /\ Others
      /\ UNCHANGED <<live, visible, snap, seen, submitted, phase, writes, xterm, drawn>>
  BY DEF IndInv, viewVars
<1>1. View(live, poll', snap, writes, xterm, phase)
  <2>1. CASE \E s \in Slots : PollStep(s)
    BY <2>1, PollStepView
  <2>2. CASE CancelStale
    BY <2>2, PollStepView, SlotSet
  <2>3. CASE \E w \in Writers : PublishLiveInvalidated(w)
    BY <2>3, PublishView
  <2>4. CASE \/ \E screen \in NextScreens, synchronized \in BOOLEAN : Output(screen, synchronized)
             \/ Reset \/ ExpireConfirmed \/ ExpireOffered
    BY <1>0, <2>4 DEF Output, Reset, ExpireConfirmed, ExpireOffered
  <2> QED
    BY <2>1, <2>2, <2>3, <2>4 DEF PoolNext
<1>2. /\ PoolType' /\ Revision' \in Nat /\ Revision' >= Revision
      /\ \A i \in 1 .. Revision : log'[i] = log[i]
  BY LogStep
<1>3. View(live', poll', snap', writes', xterm', phase')
  BY <1>0, <1>1
<1>4. View(live, poll, snap, writes, xterm, phase)'
  BY <1>0, <1>2, <1>3, GrownView
<1>5. Others'
  <2>1. Revision \in Nat
    BY <1>0, Bounds DEF PoolType
  <2> QED
    BY <1>0, <1>2, <2>1 DEF Others
<1>6. BaselineCharged'
  BY ChargedStep
<1> QED
  BY <1>2, <1>4, <1>5, <1>6 DEF IndInv

(* Every step of the client preserves the inductive invariant.              *)
LEMMA ViewStep ==
  ASSUME IndInv,
         \/ LiveScreenAnswer \/ HandleVisibilityChange \/ SnapshotEffect \/ ParseWrite
         \/ EnterHistory \/ ApplyHistory \/ ResumeAtBottom \/ RecoverChannel \/ OpenTerminal
         \/ UNCHANGED vars
  PROVE  IndInv'
<1>0. PoolType /\ Others /\ View(live, poll, snap, writes, xterm, phase)
  BY DEF IndInv
<1>1. UNCHANGED <<log, epoch, unpublished, confirmed, offered, charged>>
  BY DEF LiveScreenAnswer, HandleVisibilityChange, SnapshotEffect, ParseWrite, EnterHistory,
         ApplyHistory, ResumeAtBottom, RecoverChannel, OpenTerminal, poolVars, vars
<1>2. View(live', poll', snap', writes', xterm', phase')
  <2>1. CASE LiveScreenAnswer
    <3>1. UNCHANGED <<writes, xterm, phase>>
      BY <2>1 DEF LiveScreenAnswer
    <3> QED
      BY <2>1, <3>1, AnswerStep
  <2>2. CASE HandleVisibilityChange
    <3>1. UNCHANGED <<writes, xterm, phase>>
      BY <2>2 DEF HandleVisibilityChange
    <3> QED
      BY <2>2, <3>1, VisibilityStep
  <2>3. CASE SnapshotEffect
    <3>1. UNCHANGED <<snap, xterm, phase>>
      BY <2>3 DEF SnapshotEffect
    <3> QED
      BY <2>3, <3>1, EffectStep
  <2>4. CASE ParseWrite
    BY <2>4, ParseStep
  <2>5. CASE EnterHistory \/ ApplyHistory \/ RecoverChannel \/ OpenTerminal
    BY <2>5, HistoryStep
  <2>6. CASE ResumeAtBottom
    <3>1. UNCHANGED xterm
      BY <2>6 DEF ResumeAtBottom
    <3> QED
      BY <2>6, <3>1, ResumeStep
  <2>7. CASE UNCHANGED vars
    BY <1>0, <2>7 DEF vars
  <2> QED
    BY <2>1, <2>2, <2>3, <2>4, <2>5, <2>6, <2>7
<1>3. Revision' = Revision /\ Revision \in Nat
  BY <1>0, <1>1, Bounds DEF PoolType, Revision
<1>4. View(live, poll, snap, writes, xterm, phase)'
  BY <1>0, <1>1, <1>2, <1>3, GrownView
<1>5. PoolType'
  BY <1>0, <1>1, <1>3 DEF PoolType
<1>6. BaselineCharged'
  BY <1>1 DEF IndInv, BaselineCharged
<1>7. snap \in Snapshot /\ snap.rev \in 0 .. Revision
  <2>1. snap \in Snapshot /\ snap.rev <= Revision
    BY <1>0 DEF View
  <2>2. snap.rev \in Nat
    BY <2>1, Bounds DEF Snapshot
  <2> QED
    BY <1>3, <2>1, <2>2
<1>8. Others'
  <2>1. CASE UNCHANGED <<visible, phase, seen, submitted, drawn>>
    BY <1>0, <1>3, <2>1 DEF Others
  <2>2. CASE LiveScreenAnswer \/ ApplyHistory \/ OpenTerminal \/ UNCHANGED vars
    BY <2>1, <2>2 DEF LiveScreenAnswer, ApplyHistory, OpenTerminal, vars
  <2>3. CASE HandleVisibilityChange
    <3>1. UNCHANGED <<phase, seen, submitted, drawn>> /\ visible' = ~visible
      BY <2>3 DEF HandleVisibilityChange
    <3>2. visible' \in BOOLEAN
      BY <3>1
    <3> QED
      BY <1>0, <1>3, <3>1, <3>2 DEF Others
  <2>4. CASE EnterHistory \/ RecoverChannel
    <3>1. UNCHANGED <<visible, seen, submitted, drawn>> /\ phase' \in {"live", "history"}
      BY <2>4 DEF EnterHistory, RecoverChannel
    <3> QED
      BY <1>0, <1>3, <3>1 DEF Others
  <2>5. CASE SnapshotEffect
    <3>1. UNCHANGED <<visible, phase, drawn>> /\ seen' = snap.rev /\ submitted' \in {snap.rev, submitted}
      BY <2>5 DEF SnapshotEffect
    <3> QED
      BY <1>0, <1>3, <1>7, <3>1 DEF Others
  <2>6. CASE ParseWrite
    <3>1. /\ UNCHANGED <<visible, phase, seen, submitted>> /\ writes # <<>>
          /\ drawn' \in {drawn, Head(writes).rev}
      BY <2>6 DEF ParseWrite
    <3>2. Head(writes) \in Write /\ Head(writes).rev <= Revision
      BY <1>0, <3>1, ParseGood
    <3>3. Head(writes).rev \in 0 .. Revision
      <4>1. Head(writes).rev \in Nat
        BY <3>2, Bounds DEF Write
      <4> QED
        BY <1>3, <3>2, <4>1
    <3> QED
      BY <1>0, <1>3, <3>1, <3>3 DEF Others
  <2>7. CASE ResumeAtBottom
    <3>1. /\ UNCHANGED <<visible, seen, drawn>> /\ phase' = "live"
          /\ submitted' \in {submitted, seen}
      BY <2>7 DEF ResumeAtBottom
    <3> QED
      BY <1>0, <1>3, <3>1 DEF Others
  <2> QED
    BY <2>2, <2>3, <2>4, <2>5, <2>6, <2>7
<1> QED
  BY <1>4, <1>5, <1>6, <1>8 DEF IndInv

(* A terminal with its first screen and a client that is closed satisfy the *)
(* inductive invariant.                                                     *)
LEMMA InitInv == Init => IndInv
<1> SUFFICES ASSUME Init PROVE IndInv
  OBVIOUS
<1>0. /\ poll = [s \in Slots |-> NoPoll] /\ live = Closed /\ snap = NoSnap
      /\ writes = <<>> /\ xterm = Blank
      /\ confirmed = 0 /\ offered = 0 /\ charged = 0
  BY DEF Init, PoolInit
<1>1. PoolType /\ Revision = 1
  <2>1. [r \in Rows |-> r] \in Screen
    BY Bounds DEF Screen, Contents
  <2>2. log \in Seq(Screen) /\ Len(log) = 1
    BY <2>1 DEF Init, PoolInit
  <2> QED
    BY <2>2, Bounds DEF Init, PoolInit, PoolType, Revision
<1>2. Others
  BY <1>1 DEF Init, Others
<1>3. OnBooks
  BY <1>0, Bounds DEF OnBooks, Charge
<1>4. NoSnap.rev = 0 /\ NoSnap \in Snapshot
  BY Constants DEF NoSnap
<1>5. /\ Closed \in Live /\ Closed.received = 0 /\ Closed.damage = NoDamage
      /\ Closed.published = 0 /\ Closed.rendering = 0 /\ Closed.requesting = FALSE
  <2>1. /\ Opened.received = 0 /\ Opened.damage = NoDamage /\ Opened.published = 0
        /\ Opened.rendering = 0 /\ Opened.requesting = FALSE
    BY DEF Opened
  <2>2. /\ Closed.received = Opened.received /\ Closed.damage = Opened.damage
        /\ Closed.published = Opened.published /\ Closed.rendering = Opened.rendering
        /\ Closed.requesting = Opened.requesting
    BY Constants DEF Closed, Live
  <2> QED
    BY <2>1, <2>2, Constants
<1>6. NoDamage.kind = "none" /\ NoDamage.rows = {}
  BY DEF NoDamage
<1>7. Session(live) /\ Published(live, snap) /\ Drawn(live, snap, writes, xterm, phase)
  BY <1>0, <1>4, <1>5, <1>6 DEF Session, Published, Drawn
<1>8. poll \in [Slots -> Poll] /\ (\A t \in Slots : PollOK(poll[t])) /\ poll["current"].at = "idle"
  BY <1>0, <1>1, NoPollOK, SlotSet
<1>9. live.requesting = (poll["current"].at # "idle")
  BY <1>0, <1>5, <1>8
<1>10. writes \in Seq(Write) /\ \A i \in 1 .. Len(writes) : writes[i].rev <= Revision
  BY <1>0, EmptySeq
<1>11. live \in Live /\ live.received <= Revision /\ snap \in Snapshot /\ snap.rev <= Revision
       /\ xterm \in Screen
  BY <1>0, <1>1, <1>4, <1>5, Constants
<1>12. View(live, poll, snap, writes, xterm, phase)
  BY <1>7, <1>8, <1>9, <1>10, <1>11 DEF View
<1> QED
  BY <1>1, <1>2, <1>3, <1>12, ChargedParts DEF IndInv

(* The inductive invariant holds in every behaviour of the pool and the      *)
(* client.                                                                 *)
THEOREM Invariance == Spec => []IndInv
<1>1. IndInv /\ [Next]_vars => IndInv'
  BY PoolStep, ViewStep DEF Next
<1> QED
  BY <1>1, InitInv, PTL DEF Spec

(* Every variable has its type, and a request is marked exactly while the    *)
(* poll of the session is under way (startLiveScreenRequest, pauseLiveScreen).*)
THEOREM TypeCorrect == Spec => []TypeOK
<1>1. IndInv => TypeOK
  <2> SUFFICES ASSUME IndInv PROVE TypeOK
    OBVIOUS
  <2>1. PoolType /\ Others /\ poll \in [Slots -> Poll] /\ \A s \in Slots : PollOK(poll[s])
    BY DEF IndInv, View
  <2>2. ASSUME NEW s \in Slots
        PROVE  /\ poll[s].at \in PollStates
               /\ poll[s].observed \in 0 .. Revision
               /\ poll[s].base \in {0, poll[s].observed}
               /\ Len(poll[s].wakes) <= WakeBuffer
    <3>1. poll[s] \in Poll /\ PollOK(poll[s]) /\ Revision \in Nat
      BY <2>1, Bounds DEF PoolType
    <3>2. poll[s].observed \in Nat
      BY <3>1, Bounds DEF Poll
    <3> QED
      BY <3>1, <3>2 DEF Poll, PollOK
  <2>3. live.requesting = (poll["current"].at # "idle")
    BY DEF IndInv, View
  <2> QED
    BY <2>1, <2>2, <2>3 DEF TypeOK, PoolType, Others, PollStates
<1> QED
  BY <1>1, Invariance, PTL

(* The canonical screen of the client is the pool's screen of its revision:  *)
(* merging the rows of a delta, copied or sent, gives back what the pool     *)
(* took the delta from (mergeLiveScreenResult, nativeScreenDeltaRows).       *)
THEOREM CanonicalCorrect == Spec => []CanonicalIsPool
<1>1. IndInv => CanonicalIsPool
  BY DEF IndInv, View, Published, CanonicalIsPool
<1> QED
  BY <1>1, Invariance, PTL

(* Rows of xterm that differ from the canonical screen are named by the      *)
(* damage still to be drawn, whatever frames were dropped on the way         *)
(* (pauseLiveScreen, resumeFrozenHistoryAtBottom, the snapshot effect).      *)
THEOREM DamageCorrect == Spec => []DamageIsComplete
<1>1. IndInv => DamageIsComplete
  <2> SUFFICES ASSUME IndInv, writes = <<>>, phase = "live", live.received # 0,
                      NEW r \in Rows \ Undrawn
               PROVE  xterm[r] = log[live.received][r]
    BY DEF DamageIsComplete
  <2>1. Final(writes, xterm, r, live.rows[r])
    BY DEF IndInv, View, Drawn, Undrawn
  <2>2. xterm[r] = live.rows[r]
    BY <2>1 DEF Final
  <2> QED
    BY <2>2 DEF IndInv, View, Published
<1> QED
  BY <1>1, Invariance, PTL

(* The bytes charged to the baseline cache are those of the screens in it,   *)
(* and stay within its limit, through promotion, expiry and offers           *)
(* (acquireLiveScreenBaseline, offerLiveScreenBaseline).                     *)
THEOREM ChargeCorrect == Spec => []BaselineCharged
<1>1. IndInv => BaselineCharged
  BY DEF IndInv
<1> QED
  BY <1>1, Invariance, PTL
===============================================================================
