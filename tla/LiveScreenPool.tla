---------------------------- MODULE LiveScreenPool ----------------------------
(***************************************************************************)
(* The pool's side of live screen delivery for one terminal and one        *)
(* provider session: the latest screen with its revision and generation,   *)
(* the long poll that waits for a newer revision (Server.nextLiveScreen-   *)
(* WithBaseline and NextLiveInvalidation), the wake that reaches it through*)
(* the event broker, and the session's cache of screens (baselines) a      *)
(* delta may be taken from.                                                *)
(*                                                                         *)
(* A screen is a function from rows to row contents; every write of a row  *)
(* has a content of its own, so that a row that scrolled is found again in *)
(* the base, as the row hashes of the code find it.  Cursor, modes and     *)
(* cells are not modelled; terminal size is part of the generation, since  *)
(* every resize starts a new one.                                          *)
(***************************************************************************)
EXTENDS Naturals, Sequences, FiniteSets

CONSTANTS
    NumRows,       \* rows of the screen
    MaxRevision,   \* bound: last revision the terminal reaches
    WakeBuffer,    \* capacity of a subscription's channel (64 by default)
    CacheBytes     \* bytes the cache may hold, a screen counting 1

ASSUME PoolAssumption ==
    /\ NumRows \in Nat \ {0}
    /\ MaxRevision \in Nat \ {0}
    /\ WakeBuffer \in Nat \ {0}
    /\ CacheBytes \in Nat

VARIABLES
    log,           \* the screens of the terminal, by revision
    epoch,         \* the revision that began the current live generation
    sync,          \* the program is inside a synchronized update
    unpublished,   \* per writer, the revision it applied and has not published, or 0
    poll,          \* the session's long polls
    confirmed,     \* revision of the cached screen the client has, or 0
    offered,       \* revision of the cached screen sent last, or 0
    charged        \* liveBaselineBytes: bytes the cache is charged for

poolVars == <<log, epoch, sync, unpublished, poll, confirmed, offered, charged>>

Rows == 1 .. NumRows
Screen == [Rows -> 0 .. (NumRows + MaxRevision)]
Revision == Len(log)                    \* terminal.LiveRevision()

\* The threads that change the screen: the live output worker, and a resize or
\* restart.  Each applies its change and then publishes it.
Writers == {"output", "reset"}

\* The client has at most one poll it still wants; "stale" is one it aborted
\* whose request is still running at the pool.  (Bound: one of them.)
Slots == {"current", "stale"}

NoAnswer == [rev |-> 0, full |-> FALSE, copies |-> <<>>, fresh |-> <<>>]
NoPoll == [at |-> "idle", observed |-> 0, base |-> 0, wakes |-> <<>>,
           answer |-> NoAnswer]
SentPoll(observed) == [NoPoll EXCEPT !.at = "sent", !.observed = observed]

\* pins > 0 on the confirmed baseline: some poll took it and has not released
\* it.  Only the confirmed one is ever pinned.
Pinned == \E s \in Slots : poll[s].base # 0

-------------------------------------------------------------------------------
(* The terminal *)

\* applyLiveOutput: the emulator applies a chunk; it may touch no row, one row,
\* or scroll.  Inside a synchronized update no wake follows.
NextScreens ==
    LET s == log[Revision]
        n == NumRows + Revision
    IN  {s} \cup {[s EXCEPT ![r] = n] : r \in Rows}
            \cup {[r \in Rows |-> IF r = NumRows THEN n ELSE s[r + 1]]}

Output(screen, synchronized) ==
    /\ Revision < MaxRevision
    /\ unpublished["output"] = 0         \* one worker applies and publishes
    /\ log' = Append(log, screen)
    /\ sync' = synchronized
    /\ unpublished' = [unpublished EXCEPT !["output"] =
                          IF synchronized THEN 0 ELSE Revision + 1]
    /\ UNCHANGED <<epoch, poll, confirmed, offered, charged>>

\* Resize and restart: every row is laid out anew, in a new generation.
Reset ==
    /\ Revision < MaxRevision
    /\ unpublished["reset"] = 0
    /\ log' = Append(log, [r \in Rows |-> NumRows + Revision])
    /\ epoch' = Revision + 1
    /\ unpublished' = [unpublished EXCEPT !["reset"] = Revision + 1]
    /\ UNCHANGED <<sync, poll, confirmed, offered, charged>>

\* publishLiveInvalidated: the event has no delivery key, so that a subscriber
\* whose channel is full loses it.  Subscribers are the polls between their
\* subscription and their answer.
Listening == {"subscribed", "waiting"}

Enqueued(p, rev) ==
    IF p.at \in Listening /\ Len(p.wakes) < WakeBuffer
    THEN [p EXCEPT !.wakes = Append(@, rev)] ELSE p

PublishLiveInvalidated(w) ==
    /\ unpublished[w] # 0
    /\ unpublished' = [unpublished EXCEPT ![w] = 0]
    /\ poll' = [s \in Slots |-> Enqueued(poll[s], unpublished[w])]
    /\ UNCHANGED <<log, epoch, sync, confirmed, offered, charged>>

-------------------------------------------------------------------------------
(* The long poll: dispatchLiveScreenNext *)

\* acquireLiveScreenBaseline: a client that observed the offered screen has
\* confirmed it, unless a poll still pins the one before; the base is the
\* confirmed screen if it is the observed one.
Promotes(observed) == observed # 0 /\ offered = observed /\ ~Pinned
AfterPromotion(observed) == IF Promotes(observed) THEN offered ELSE confirmed
AcquiredBase(observed) ==
    IF observed # 0 /\ (offered = observed => ~Pinned) /\ AfterPromotion(observed) = observed
    THEN observed ELSE 0

\* Bytes given back for the confirmed screen a promotion replaces.
\* Faulty variant of Replaced: the replaced screen is forgotten without giving its bytes back.
ReplacedKeepsBytes(observed) == 0
Replaced(observed) == IF Promotes(observed) /\ confirmed # 0 THEN 1 ELSE 0

\* dispatchLiveScreenNext up to the subscription.  NextLiveInvalidation
\* subscribes before it looks at the revision; a poll that observed nothing, or
\* more than there is, does not wait at all.  (The cache and the broker share no
\* state: the two are one step.)
DispatchLiveScreenNext(s) ==
    /\ poll[s].at = "sent"
    /\ LET observed == poll[s].observed
       IN  /\ confirmed' = AfterPromotion(observed)
           /\ offered' = IF Promotes(observed) THEN 0 ELSE offered
           /\ charged' = charged - Replaced(observed)
           /\ poll' = [poll EXCEPT
                  ![s].base = AcquiredBase(observed),
                  ![s].at = IF observed \in 1 .. Revision THEN "subscribed" ELSE "ready"]
    /\ UNCHANGED <<log, epoch, sync, unpublished>>

\* Faulty variant of CheckRevision: a subscribed poll waits for a wake without looking at the revision.
CheckRevisionSkipped(s) ==
    /\ poll[s].at = "subscribed"
    /\ poll' = [poll EXCEPT ![s].at = "waiting"]
    /\ UNCHANGED <<log, epoch, sync, unpublished, confirmed, offered, charged>>

\* The revision is looked at after the subscription: output that came between
\* the observed screen and the subscription has no wake to come.
CheckRevision(s) ==
    /\ poll[s].at = "subscribed"
    /\ poll' = [poll EXCEPT ![s].at =
                   IF Revision > poll[s].observed THEN "ready" ELSE "waiting"]
    /\ UNCHANGED <<log, epoch, sync, unpublished, confirmed, offered, charged>>

ReceiveWake(s) ==
    /\ poll[s].at = "waiting"
    /\ poll[s].wakes # <<>>
    /\ poll' = [poll EXCEPT ![s].wakes = Tail(@),
                            ![s].at = IF Head(poll[s].wakes) > poll[s].observed
                                      THEN "ready" ELSE "waiting"]
    /\ UNCHANGED <<log, epoch, sync, unpublished, confirmed, offered, charged>>

\* nativeScreenDeltaRows: unchanged rows are left out, rows found in the base
\* are copied from their first place there, the others are sent.
CopiedRows(base, cur) ==
    LET moved == {d \in Rows : base[d] # cur[d] /\ \E src \in Rows : base[src] = cur[d]}
    IN  [d \in moved |-> CHOOSE src \in Rows :
                            /\ base[src] = cur[d]
                            /\ \A o \in Rows : base[o] = cur[d] => src <= o]

FreshRows(base, cur) ==
    LET new == {d \in Rows : \A src \in Rows : base[src] # cur[d]}
    IN  [d \in new |-> cur[d]]

\* nativeScreenSnapshotSinceBaseline: the answer to a poll, and the screen that
\* becomes the next baseline.
SnapshotSinceBaseline(observed, base) ==
    LET full == base = 0 \/ base # observed \/ base < epoch
    IN  [rev |-> Revision, full |-> full,
         copies |-> IF full THEN <<>> ELSE CopiedRows(log[base], log[Revision]),
         fresh |-> IF full THEN log[Revision] ELSE FreshRows(log[base], log[Revision])]

TakeSnapshot(s) ==
    /\ poll[s].at = "ready"
    /\ poll' = [poll EXCEPT ![s].at = "offering", ![s].wakes = <<>>,
                    ![s].answer = SnapshotSinceBaseline(poll[s].observed, poll[s].base)]
    /\ UNCHANGED <<log, epoch, sync, unpublished, confirmed, offered, charged>>

\* offerLiveScreenBaseline, then the deferred release of the pin: the older
\* offer is dropped first; without room the new one is not cached.
Replaces(rev) == offered = 0 \/ offered <= rev
HeldAfterDrop == IF offered = 0 THEN charged ELSE charged - 1

OfferLiveScreenBaseline(s) ==
    /\ poll[s].at = "offering"
    /\ LET rev == poll[s].answer.rev
           fits == HeldAfterDrop + 1 <= CacheBytes
       IN  IF Replaces(rev)
           THEN /\ offered' = IF fits THEN rev ELSE 0
                /\ charged' = IF fits THEN HeldAfterDrop + 1 ELSE HeldAfterDrop
           ELSE UNCHANGED <<offered, charged>>
    /\ poll' = [poll EXCEPT ![s] =
                   IF s = "stale" THEN NoPoll
                   ELSE [@ EXCEPT !.at = "answered", !.base = 0]]
    /\ UNCHANGED <<log, epoch, sync, unpublished, confirmed>>

\* The cancelled context of an aborted request ends it where it waits: for a
\* wake, or for the output already queued (flushLiveOutput).
CancelStale ==
    /\ poll["stale"].at \in {"waiting", "ready"}
    /\ poll' = [poll EXCEPT !["stale"] = NoPoll]
    /\ UNCHANGED <<log, epoch, sync, unpublished, confirmed, offered, charged>>

\* pruneLiveScreenBaselinesLocked: a screen nobody pins expires.
ExpireConfirmed ==
    /\ confirmed # 0 /\ ~Pinned
    /\ confirmed' = 0
    /\ charged' = charged - 1
    /\ UNCHANGED <<log, epoch, sync, unpublished, poll, offered>>

ExpireOffered ==
    /\ offered # 0
    /\ offered' = 0
    /\ charged' = charged - 1
    /\ UNCHANGED <<log, epoch, sync, unpublished, poll, confirmed>>

PoolInit ==
    /\ log = <<[r \in Rows |-> r]>>      \* the start marker
    /\ epoch = 1
    /\ sync = FALSE
    /\ unpublished = [w \in Writers |-> 0]
    /\ poll = [s \in Slots |-> NoPoll]
    /\ confirmed = 0 /\ offered = 0 /\ charged = 0

\* What the pool owes the session.
PollStep(s) ==
    \/ DispatchLiveScreenNext(s)
    \/ CheckRevision(s)
    \/ ReceiveWake(s)
    \/ TakeSnapshot(s)
    \/ OfferLiveScreenBaseline(s)

PoolNext ==
    \/ \E screen \in NextScreens, synchronized \in BOOLEAN : Output(screen, synchronized)
    \/ Reset
    \/ \E w \in Writers : PublishLiveInvalidated(w)
    \/ \E s \in Slots : PollStep(s)
    \/ CancelStale
    \/ ExpireConfirmed
    \/ ExpireOffered

===============================================================================
