---------------------------- MODULE LiveScreenView ----------------------------
(***************************************************************************)
(* Live screen delivery end to end: the pool (LiveScreenPool), the client's*)
(* protocol session that keeps one long poll and one canonical screen      *)
(* (protoTerminalProtocolSession.ts, liveScreenCache.ts), the React hook   *)
(* that hands its snapshots on (useTerminalSession.tsx) and the component  *)
(* that draws them into xterm (Terminal.tsx).                              *)
(*                                                                         *)
(* JavaScript runs one callback at a time: every action is one callback,   *)
(* with all it calls before it returns or awaits.  Between the call that   *)
(* sets React state and the effect that sees it, other callbacks run.      *)
(***************************************************************************)
EXTENDS LiveScreenPool

CONSTANTS
    MaxInterruptions  \* bound: times the document is hidden, the view leaves the
                      \* bottom or the channel is recovered

ASSUME ViewAssumption == MaxInterruptions \in Nat

VARIABLES
    live,          \* LiveScreenDeliveryState of the terminal
    visible,       \* documentVisible
    snap,          \* terminalSnapshot: the snapshot React holds
    effect,        \* the snapshot changed and its effect has not run
    seen,          \* latestLiveScreenRevisionRef: revision of the last render
    submitted,     \* lastLiveScreenSubmittedRevisionRef
    phase,         \* TerminalHistoryViewportController: live, or history in view
    writes,        \* writes xterm has accepted and not parsed
    xterm,         \* rows xterm shows; 0 is a row of history
    drawn,         \* revision of the last live frame xterm parsed
    interruptions

viewVars == <<live, visible, snap, effect, seen, submitted, phase, writes,
              xterm, drawn, interruptions>>
vars == <<log, epoch, sync, unpublished, poll, confirmed, offered, charged,
          live, visible, snap, effect, seen, submitted, phase, writes, xterm,
          drawn, interruptions>>

NoDamage == [kind |-> "none", rows |-> {}]
FullScreenDamage == [kind |-> "full", rows |-> Rows]
Blank == [r \in Rows |-> 0]

\* The state openTerminal creates, and the one closeTerminalChannel leaves.
Opened == [open |-> TRUE, received |-> 0, rows |-> Blank, damage |-> NoDamage,
           published |-> 0, rendering |-> 0, demand |-> TRUE, requesting |-> FALSE]
Closed == [Opened EXCEPT !.open = FALSE, !.demand = FALSE]

NoSnap == [rev |-> 0, rows |-> Blank, damage |-> NoDamage]

-------------------------------------------------------------------------------
(* protoTerminalProtocolSession.ts *)

\* The early return of startLiveScreenRequest.
MayRequest(l, vis) ==
    /\ l.open /\ l.demand /\ vis
    /\ ~l.requesting
    /\ l.published = 0
    /\ l.damage = NoDamage

\* startLiveScreenRequest up to its await: the last thing a callback does.
StartLiveScreenRequest(l, vis, polls) ==
    IF MayRequest(l, vis)
    THEN /\ live' = [l EXCEPT !.requesting = TRUE]
         /\ poll' = [polls EXCEPT !["current"] = SentPoll(l.received)]
    ELSE /\ live' = l
         /\ poll' = polls

\* publishReceivedScreen, and onSnapshot of the hook: React state is set, its
\* effect runs later.
MayPublish(l) == l.damage # NoDamage /\ l.published = 0 /\ l.rendering = 0

PublishReceivedScreen(l) ==
    /\ live' = [l EXCEPT !.damage = NoDamage, !.published = l.received]
    /\ snap' = [rev |-> l.received, rows |-> l.rows, damage |-> l.damage]
    /\ effect' = TRUE

NoPublication == UNCHANGED <<snap, effect>>

\* pauseLiveScreen: the poll is aborted; a frame published but not submitted is
\* kept as damage of the whole screen.
\* Faulty variant of PauseLiveScreen: the aborted request is not forgotten.
PauseKeepsRequest(l) == l
PauseLiveScreen(l) ==
    LET unsubmitted == l.published # 0 /\ l.rendering = 0 /\ l.received # 0
    IN  [l EXCEPT !.requesting = FALSE,
                  !.published = IF unsubmitted THEN 0 ELSE @,
                  !.damage = IF unsubmitted THEN FullScreenDamage ELSE @]

\* What an abort leaves at the pool: the request ended with it, or still runs.
AbortedPolls ==
    LET ended == [poll EXCEPT !["current"] = NoPoll]
        running == [poll EXCEPT !["current"] = NoPoll, !["stale"] = poll["current"]]
    IN  {ended} \cup
        IF poll["current"].at \notin {"idle", "answered"} /\ poll["stale"] = NoPoll
        THEN {running} ELSE {}

\* resumeLiveScreen, for a state l that is visible and wanted again.
ResumeLiveScreen(l, vis, polls) ==
    IF ~l.demand \/ ~vis
    THEN live' = l /\ poll' = polls /\ NoPublication
    ELSE IF MayPublish(l)
    THEN PublishReceivedScreen(l) /\ poll' = polls
    ELSE StartLiveScreenRequest(l, vis, polls) /\ NoPublication

\* mergeLiveScreenResult: copies read the base rows, then rows are replaced; a
\* full answer starts from an empty screen.  The damage names the rows to draw.
\* Faulty variant of MergedRows: copies read rows the same answer has already replaced.
MergedRowsInPlace(l, a) ==
    LET base == IF a.full THEN Blank ELSE l.rows
        replaced == [r \in Rows |-> IF r \in DOMAIN a.fresh THEN a.fresh[r] ELSE base[r]]
    IN  [r \in Rows |-> IF r \in DOMAIN a.copies THEN replaced[a.copies[r]] ELSE replaced[r]]
MergedRows(l, a) ==
    LET base == IF a.full THEN Blank ELSE l.rows
    IN  [r \in Rows |-> IF r \in DOMAIN a.fresh THEN a.fresh[r]
                        ELSE IF r \in DOMAIN a.copies THEN base[a.copies[r]]
                        ELSE base[r]]

\* Faulty variant of MergedDamage: copied rows are not drawn.
MergedDamageOfReplacements(a) ==
    IF a.full THEN FullScreenDamage ELSE [kind |-> "rows", rows |-> DOMAIN a.fresh]
MergedDamage(a) ==
    IF a.full THEN FullScreenDamage
    ELSE [kind |-> "rows", rows |-> DOMAIN a.copies \cup DOMAIN a.fresh]

\* A delta needs the screen it was taken from.
Mergeable(l, observed, a) == a.full \/ l.received = observed

\* The rest of startLiveScreenRequest: the answer of the poll arrives.
LiveScreenAnswer ==
    /\ poll["current"].at = "answered"
    /\ LET a == poll["current"].answer
           polls == [poll EXCEPT !["current"] = NoPoll]
           l == [live EXCEPT !.requesting = FALSE]
           merged == [l EXCEPT !.received = a.rev, !.rows = MergedRows(l, a),
                               !.damage = MergedDamage(a)]
       IN  CASE l.received # 0 /\ a.rev <= l.received ->
                  live' = l /\ poll' = polls /\ NoPublication
             [] ~(l.received # 0 /\ a.rev <= l.received)
                  /\ ~Mergeable(l, poll["current"].observed, a) ->
                  /\ StartLiveScreenRequest([l EXCEPT !.received = 0, !.damage = NoDamage],
                                            visible, polls)
                  /\ NoPublication
             [] OTHER ->
                  /\ poll' = polls
                  /\ IF merged.rendering = 0 /\ merged.published = 0 /\ visible /\ merged.demand
                     THEN PublishReceivedScreen(merged)
                     ELSE live' = merged /\ NoPublication
    /\ UNCHANGED <<log, epoch, sync, unpublished, confirmed, offered, charged>>
    /\ UNCHANGED <<visible, seen, submitted, phase, writes, xterm, drawn, interruptions>>

\* visibilitychange.
HandleVisibilityChange ==
    /\ visible => interruptions < MaxInterruptions
    /\ interruptions' = IF visible THEN interruptions + 1 ELSE interruptions
    /\ visible' = ~visible
    /\ IF visible
       THEN /\ live' = IF live.open THEN PauseLiveScreen(live) ELSE live
            /\ poll' \in AbortedPolls
            /\ NoPublication
       ELSE IF live.open THEN ResumeLiveScreen(live, TRUE, poll)
       ELSE UNCHANGED <<live, poll>> /\ NoPublication
    /\ UNCHANGED <<log, epoch, sync, unpublished, confirmed, offered, charged>>
    /\ UNCHANGED <<seen, submitted, phase, writes, xterm, drawn>>

\* markLiveScreenSubmitted.
Accepts(l, rev) == l.open /\ l.published = rev /\ l.rendering = 0

MarkLiveScreenSubmitted(l, rev, polls) ==
    IF Accepts(l, rev)
    THEN StartLiveScreenRequest([l EXCEPT !.published = 0, !.rendering = rev], visible, polls)
    ELSE live' = l /\ poll' = polls

\* markLiveScreenCompleted.
\* Faulty variant of MarkLiveScreenCompleted: a frame received during the rendering is not published after it.
MarkCompletedOnly(rev) ==
    /\ live' = IF live.open /\ live.rendering = rev THEN [live EXCEPT !.rendering = 0] ELSE live
    /\ NoPublication
MarkLiveScreenCompleted(rev) ==
    IF live.open /\ live.rendering = rev
    THEN LET l == [live EXCEPT !.rendering = 0]
         IN  IF MayPublish(l) THEN PublishReceivedScreen(l)
             ELSE live' = l /\ NoPublication
    ELSE UNCHANGED live /\ NoPublication

-------------------------------------------------------------------------------
(* Terminal.tsx *)

\* A write to xterm, with the revision its callback reports as completed.
Frame(s) == [rev |-> s.rev, rows |-> s.rows, damage |-> s.damage, reports |-> s.rev]
WholeFrame(s, reports) ==
    [Frame(s) EXCEPT !.damage = FullScreenDamage, !.reports = reports]
HistoryPage == [rev |-> 0, rows |-> Blank, damage |-> FullScreenDamage, reports |-> 0]

\* liveSnapshotCandidate: the revision differs from the one submitted last.
LiveSnapshotCandidate == snap.rev # 0 /\ snap.rev # submitted

\* The render and its snapshot effect.
SnapshotEffect ==
    /\ effect
    /\ effect' = FALSE
    /\ seen' = snap.rev
    /\ IF LiveSnapshotCandidate /\ phase = "live"
       THEN /\ submitted' = snap.rev
            /\ writes' = Append(writes, Frame(snap))
            /\ MarkLiveScreenSubmitted(live, snap.rev, poll)
       ELSE UNCHANGED <<submitted, writes, live, poll>>
    /\ UNCHANGED <<log, epoch, sync, unpublished, confirmed, offered, charged>>
    /\ UNCHANGED <<visible, snap, phase, xterm, drawn, interruptions>>

\* xterm parses a write and calls back.
ParseWrite ==
    /\ writes # <<>>
    /\ LET w == Head(writes)
       IN  /\ xterm' = [r \in Rows |-> IF r \in w.damage.rows THEN w.rows[r] ELSE xterm[r]]
           /\ drawn' = IF w.rev = 0 THEN drawn ELSE w.rev
           /\ IF w.reports = 0 THEN UNCHANGED live /\ NoPublication
              ELSE MarkLiveScreenCompleted(w.reports)
    /\ writes' = Tail(writes)
    /\ UNCHANGED <<log, epoch, sync, unpublished, poll, confirmed, offered, charged>>
    /\ UNCHANGED <<visible, seen, submitted, phase, interruptions>>

\* armHistoryScrollbackLoad: the user leaves the bottom.
EnterHistory ==
    /\ phase = "live"
    /\ interruptions < MaxInterruptions
    /\ interruptions' = interruptions + 1
    /\ phase' = "history"
    /\ IF live.open /\ live.demand
       THEN /\ live' = PauseLiveScreen([live EXCEPT !.demand = FALSE])
            /\ poll' \in AbortedPolls
       ELSE UNCHANGED <<live, poll>>
    /\ UNCHANGED <<log, epoch, sync, unpublished, confirmed, offered, charged>>
    /\ UNCHANGED <<visible, snap, effect, seen, submitted, writes, xterm, drawn>>

\* A loaded page of history is written over the screen.  The same effect does
\* it, after it has looked at the live part of the snapshot.
ApplyHistory ==
    /\ phase = "history"
    /\ ~effect
    /\ \A i \in DOMAIN writes : writes[i].rev # 0
    /\ xterm # Blank
    /\ writes' = Append(writes, HistoryPage)
    /\ UNCHANGED poolVars
    /\ UNCHANGED <<live, visible, snap, effect, seen, submitted, phase, xterm, drawn, interruptions>>

\* resumeFrozenHistoryAtBottom: demand first (setLiveScreenDemand), which may
\* publish; then the latest text is written whole, submitted under the revision
\* of the last render.
ResumeAtBottom ==
    /\ phase = "history"
    /\ \A i \in DOMAIN writes : writes[i].rev # 0
    /\ phase' = "live"
    /\ LET wanted == [live EXCEPT !.demand = TRUE]
           publishes == live.open /\ ~live.demand /\ visible /\ MayPublish(wanted)
           resumed == IF publishes
                      THEN [wanted EXCEPT !.damage = NoDamage, !.published = wanted.received]
                      ELSE wanted
           latest == IF publishes
                     THEN [rev |-> wanted.received, rows |-> wanted.rows, damage |-> wanted.damage]
                     ELSE snap
           starts == ~publishes /\ live.open /\ ~live.demand /\ MayRequest(wanted, visible)
           polls == IF starts THEN [poll EXCEPT !["current"] = SentPoll(wanted.received)] ELSE poll
           l == [resumed EXCEPT !.requesting = @ \/ starts]
       IN  /\ snap' = latest
           /\ effect' = TRUE
           /\ writes' = IF latest.rev = 0 THEN writes ELSE Append(writes, WholeFrame(latest, seen))
           /\ submitted' = IF seen = 0 THEN submitted ELSE seen
           /\ IF ~live.open THEN UNCHANGED <<live, poll>>
              ELSE MarkLiveScreenSubmitted(l, seen, polls)
    /\ UNCHANGED <<log, epoch, sync, unpublished, confirmed, offered, charged>>
    /\ UNCHANGED <<visible, seen, xterm, drawn, interruptions>>

-------------------------------------------------------------------------------
(* Channel recovery within the session: closeTerminalChannel of the old     *)
(* protocol session, the effect of the closed channel on the component      *)
(* (which leaves the history view and so sets the snapshot again), and      *)
(* openTerminal of a new protocol session.                                  *)

RecoverChannel ==
    /\ live.open
    /\ interruptions < MaxInterruptions
    /\ interruptions' = interruptions + 1
    /\ live' = Closed
    /\ poll' \in AbortedPolls
    /\ phase' = "live"
    /\ effect' = (effect \/ phase = "history")
    /\ UNCHANGED <<log, epoch, sync, unpublished, confirmed, offered, charged>>
    /\ UNCHANGED <<visible, snap, seen, submitted, writes, xterm, drawn>>

OpenTerminal ==
    /\ ~live.open
    /\ StartLiveScreenRequest(Opened, visible, poll)
    /\ UNCHANGED <<log, epoch, sync, unpublished, confirmed, offered, charged>>
    /\ UNCHANGED <<visible, snap, effect, seen, submitted, phase, writes, xterm, drawn, interruptions>>

Init ==
    /\ PoolInit
    /\ live = Closed
    /\ visible = TRUE
    /\ snap = NoSnap
    /\ effect = FALSE
    /\ seen = 0 /\ submitted = 0 /\ drawn = 0
    /\ phase = "live"
    /\ writes = <<>>
    /\ xterm = Blank
    /\ interruptions = 0

Next ==
    \/ PoolNext /\ UNCHANGED viewVars
    \/ LiveScreenAnswer
    \/ HandleVisibilityChange
    \/ SnapshotEffect
    \/ ParseWrite
    \/ EnterHistory
    \/ ApplyHistory
    \/ ResumeAtBottom
    \/ RecoverChannel
    \/ OpenTerminal

Spec == Init /\ [][Next]_vars

\* The pool answers its polls and publishes its wakes; the browser runs promise
\* callbacks, effects and xterm's parser; a recovery opens its channel.  Output,
\* the user and the visibility of the document owe nothing.
FairSpec ==
    /\ Spec
    /\ \A s \in Slots : WF_vars(PollStep(s) /\ UNCHANGED viewVars)
    /\ WF_vars((\E w \in Writers : PublishLiveInvalidated(w)) /\ UNCHANGED viewVars)
    /\ WF_vars(LiveScreenAnswer)
    /\ WF_vars(SnapshotEffect)
    /\ WF_vars(ParseWrite)
    /\ WF_vars(OpenTerminal)

-------------------------------------------------------------------------------
(* Properties *)

\* Every variable has its type, and the session's request flag is set exactly
\* while its poll is under way (startLiveScreenRequest, pauseLiveScreen).
TypeOK ==
    /\ log \in Seq(Screen) /\ Revision \in 1 .. MaxRevision
    /\ epoch \in 1 .. Revision
    /\ unpublished \in [Writers -> 0 .. Revision]
    /\ \A s \in Slots : /\ poll[s].at \in {"idle", "sent", "subscribed",
                                           "waiting", "ready", "offering", "answered"}
                        /\ poll[s].observed \in 0 .. Revision
                        /\ poll[s].base \in {0, poll[s].observed}
                        /\ Len(poll[s].wakes) <= WakeBuffer
    /\ confirmed \in 0 .. Revision /\ offered \in 0 .. Revision
    /\ live.requesting = (poll["current"].at # "idle")
    /\ phase \in {"live", "history"}
    /\ seen \in 0 .. Revision /\ submitted \in 0 .. Revision /\ drawn \in 0 .. Revision

\* The canonical screen of the client is the pool's screen of that revision:
\* deltas with row copies, full answers, aborted polls and expired baselines
\* never leave rows of two revisions side by side (liveScreenCache.ts, "Row
\* copies always read from the same base screen").
CanonicalIsPool ==
    live.received # 0 => live.rows = log[live.received]

\* The rows that the published frame, or the damage kept for the next one, is
\* still to draw.
Undrawn == IF live.published # 0 THEN snap.damage.rows ELSE live.damage.rows

\* Only the damaged rows of a delta are written, and frames may have been
\* dropped by hiding, by the history view or by a recovery.  Yet once xterm has
\* parsed what it was given, every row in which it differs from the canonical
\* screen is named by the damage still to be drawn; without such damage it
\* shows the pool's screen.
DamageIsComplete ==
    writes = <<>> /\ phase = "live" /\ live.received # 0 =>
        \A r \in Rows \ Undrawn : xterm[r] = log[live.received][r]

\* The baseline budget is charged for the screens the cache holds, never more
\* or less, and stays within its limit.
BaselineCharged ==
    /\ charged = Cardinality({s \in {"confirmed", "offered"} :
                                 IF s = "confirmed" THEN confirmed # 0 ELSE offered # 0})
    /\ charged <= CacheBytes

\* The published frame has the revision the component submitted last, so that
\* its effect takes it for one already drawn: it will never be submitted.
DeduplicatedAway ==
    live.published # 0 /\ live.published = submitted /\ ~effect

\* Once the document stays visible and the view stays at the bottom, the latest
\* screen is drawn again and again, unless the published frame was taken for
\* one already submitted.  (Inside a synchronized update no wake is owed.)
LatestIsDrawnOrDeduplicated ==
    <>[](visible /\ phase = "live")
        => []<>(drawn = Revision \/ sync \/ DeduplicatedAway)

\* The same without the exception.  It holds as long as neither visibility nor
\* the channel changes (MaxInterruptions = 0), so that only the long poll, its
\* wakes and the baselines decide; with one change it does not
\* (docs/TERMINAL_DELIVERY.md says that the foreground resumes).
LatestIsDrawn ==
    <>[](visible /\ phase = "live") => []<>(drawn = Revision \/ sync)

===============================================================================
