---------------------------- MODULE BindingBridge ----------------------------
(* The asynchronous operations between the web client and the Go engine:     *)
(*   - ProtoBindingClient (clients/ui/src/binding/protoBindingClient.ts);    *)
(*   - WebSocketBindingBackend (clients/web/src), one socket generation;     *)
(*   - the loopback bridge and the handle registry of the engine             *)
(*     (access/engine/binding).                                              *)
(*                                                                           *)
(* A call of the client is answered twice: ACCEPTED with an operation handle *)
(* when the engine has started it, and an event when it has finished.  The   *)
(* two are written to the socket by different goroutines, so that the event  *)
(* may come first; the caller may abort at any time, and whoever holds the   *)
(* handle then has to cancel the operation, to give back what it opened, and *)
(* to release the handle.                                                    *)
(*                                                                           *)
(* A handle is named by the call it was allocated for.  An engine command    *)
(* behaves as an execute without a session whose result owns nothing;        *)
(* streams and lifecycle progress events are left out.                       *)
EXTENDS Naturals, Sequences, FiniteSets

CONSTANTS
    Opens,      \* calls of openSession
    Executes,   \* calls of execute, on a session one of them has opened
    Owning,     \* those whose result may own a resource of the session
    Cleanups,   \* those kept for the client's own clean-up commands
    MaxHandles, \* maxLiveHandles of the engine
    MaxEarly,   \* MAX_EARLY_OPERATION_EVENTS of the client
    MaxRetired  \* MAX_ABANDONED_STREAM_HANDLES of the client

ASSUME BridgeAssumption ==
    /\ Opens \cap Executes = {}
    /\ Executes # {} => Opens # {}
    /\ IsFiniteSet(Opens \cup Executes)
    /\ Cleanups \subseteq Executes /\ Owning \subseteq Executes \ Cleanups
    /\ Cardinality(Owning) <= Cardinality(Cleanups)
    /\ MaxHandles \in Nat \ {0} /\ MaxEarly \in Nat \ {0} /\ MaxRetired \in Nat \ {0}

Calls == Opens \cup Executes

VARIABLES
    call,       \* how far each call has come, seen by its caller
    target,     \* the open call whose session an execute uses
    abandoned,  \* backend.abandoned: aborted before ACCEPTED
    early,      \* earlyOperationEvents
    cancelled,  \* cancelledOperations: aborted after ACCEPTED
    sessions,   \* the sessions the client holds
    alive,      \* those of them whose user has neither closed nor lost them
    retired,    \* retiredSessionHandles
    released,   \* releasedSessionHandles
    closed,     \* "no", or why the client has closed: a request was refused, a
                \* clean-up has failed, or else "gone"
    up, down,   \* frames on the socket
    reply,      \* the answer the bridge has not yet written
    events,     \* the renderer's event queue
    attached,   \* whether the renderer is attached
    run,        \* the goroutine of each operation
    op,         \* engine.operations
    ctxDone,    \* operations whose context has been cancelled
    host,       \* the host's session of each open call
    reg         \* engine.sessions

clientVars == <<abandoned, early, cancelled, sessions, alive, retired, released>>
engineVars == <<run, op, ctxDone, host, reg>>
vars == <<call, target, clientVars, closed, up, down, reply, events, attached,
          engineVars>>

Request(kind, c) == [kind |-> kind, call |-> c]
Result(c, outcome) == [kind |-> "result", call |-> c, outcome |-> outcome]
Pending == {"sent", "waiting"}

Init ==
    /\ call = [c \in Calls |-> "idle"]
    /\ target \in [Executes -> {CHOOSE o \in Opens : TRUE}]
    /\ abandoned = {} /\ early = {} /\ cancelled = {}
    /\ sessions = {} /\ alive = {} /\ retired = {} /\ released = {}
    /\ closed = "no"
    /\ up = <<>> /\ down = <<>> /\ reply = <<>> /\ events = <<>>
    /\ attached = TRUE
    /\ run = [c \in Calls |-> "none"]
    /\ op = [c \in Calls |-> "none"]
    /\ ctxDone = {}
    /\ host = [c \in Opens |-> "none"]
    /\ reg = [c \in Opens |-> "none"]

(***************************************************************************)
(* The client.                                                             *)
(***************************************************************************)

Send(requests) == up' = up \o requests

(* onClosed, and close() of the client: everything pending is rejected, the *)
(* maps are cleared and the socket is closed.  What was sent may still      *)
(* reach the bridge; nothing comes back.                                   *)
OnClosed(why) ==
    /\ closed' = why
    /\ call' = [c \in Calls |-> IF call[c] \in Pending THEN "settled" ELSE call[c]]
    /\ abandoned' = {} /\ early' = {} /\ cancelled' = {}
    /\ sessions' = {} /\ alive' = {} /\ retired' = {} /\ released' = {}
    /\ down' = <<>>
    /\ UNCHANGED target

(* openSession and execute, up to the request on the socket.                *)
StartCall(c) ==
    /\ closed = "no" /\ call[c] = "idle" /\ c \notin Cleanups
    /\ \/ c \in Opens /\ UNCHANGED target
       \/ c \in Executes /\ \E s \in alive : target' = [target EXCEPT ![c] = s]
    /\ call' = [call EXCEPT ![c] = "sent"]
    /\ Send(<<Request("start", c)>>)
    /\ UNCHANGED <<clientVars, closed, down, reply, events, attached, engineVars>>

(* The caller's signal while the backend waits for ACCEPTED: the call is    *)
(* rejected there and the client never learns the handle.                  *)
AbandonRequest(c) ==
    /\ call[c] = "sent" /\ c \notin Cleanups
    /\ call' = [call EXCEPT ![c] = "dropped"]
    /\ abandoned' = abandoned \cup {c}
    /\ UNCHANGED <<target, early, cancelled, sessions, alive, retired, released, closed, up, down,
                   reply, events, attached, engineVars>>

(* The signal while waitOperation waits for the event: abandonOperation.    *)
AbandonOperation(c) ==
    /\ call[c] = "waiting" /\ c \notin Cleanups
    /\ call' = [call EXCEPT ![c] = "aborted"]
    /\ cancelled' = cancelled \cup {c}
    /\ Send(<<Request("cancel", c)>>)
    /\ UNCHANGED <<target, abandoned, early, sessions, alive, retired, released, closed, down,
                   reply, events, attached, engineVars>>

(* The signal of a clean-up command, CANCELLED_CLEANUP_TIMEOUT_MS after its *)
(* start: it is abandoned like any other, and its failure closes the        *)
(* binding.                                                                *)
CleanupTimesOut(c) ==
    /\ call[c] \in Pending
    /\ Send(IF call[c] = "waiting" THEN <<Request("cancel", c)>> ELSE <<>>)
    /\ OnClosed("cleanup")
    /\ UNCHANGED <<reply, events, attached, engineVars>>

(* ProtoBindingSession.close.                                               *)
CloseSession(c) ==
    /\ c \in alive
    /\ alive' = alive \ {c}
    /\ Send(<<Request("close", c)>>)
    /\ UNCHANGED <<call, target, abandoned, early, cancelled, sessions, retired, released, closed,
                   down, reply, events, attached, engineVars>>

(* An execute has failed; stale_session and unavailable tell that its       *)
(* session has gone, which marks it closed.                                *)
MarkStale(c) == c \in Executes /\ alive' = alive \ {target[c]}

(* A pending call gets its event: the promise settles, the session is kept, *)
(* the operation handle is given back (releaseCompletedOperation).  If it   *)
(* was a clean-up command and has failed, or was an upload's and has not    *)
(* confirmed, the binding closes.                                          *)
Settle(e) ==
    /\ Send(<<Request("releaseOperation", e.call)>>)
    /\ \/ e.call \in Cleanups /\ OnClosed("cleanup")
       \/ /\ e.call \in Cleanups => e.outcome # "error"
          /\ call' = [call EXCEPT ![e.call] = "settled"]
          /\ early' = early \ {e}
          /\ \/ /\ e.outcome = "session"
                /\ sessions' = sessions \cup {e.call} /\ alive' = alive \cup {e.call}
             \/ e.outcome # "session" /\ UNCHANGED <<sessions, alive>>
             \/ e.outcome = "error" /\ MarkStale(e.call) /\ UNCHANGED sessions
          /\ UNCHANGED <<target, abandoned, cancelled, retired, released, closed>>

(* cleanupCancelledExecute, and the release after it.  A result that owns a *)
(* resource is followed by a command that gives it back, on the session     *)
(* unless its end has been heard of; an error, and a session that its user  *)
(* has closed, close the binding.                                          *)
RetireExecute(e) ==
    LET s == target[e.call]
        gone == e.outcome = "nothing" \/ (e.outcome = "resource" /\ s \notin sessions)
        failed == e.outcome = "error" \/ (e.outcome = "resource" /\ s \in sessions \ alive)
        release == Request("releaseOperation", e.call)
    IN \/ /\ failed
          /\ Send(<<release>>)
          /\ OnClosed("cleanup")
       \/ /\ gone
          /\ Send(<<release>>)
          /\ cancelled' = cancelled \ {e.call}
          /\ UNCHANGED <<call, target, abandoned, early, sessions, alive, retired, released, closed>>
       \/ /\ ~failed /\ ~gone
          /\ \E k \in Cleanups : /\ call[k] = "idle"
                                 /\ call' = [call EXCEPT ![k] = "sent"]
                                 /\ target' = [target EXCEPT ![k] = s]
                                 /\ Send(<<Request("start", k), release>>)
          /\ cancelled' = cancelled \ {e.call}
          /\ UNCHANGED <<abandoned, early, sessions, alive, retired, released, closed>>

(* Faulty variant of RetireOpen: the session handle is released at once, as *)
(* the operation's is.                                                     *)
RetireOpenReleasing(e) ==
    /\ retired' = retired \cup (IF e.outcome = "session" THEN {e.call} ELSE {})
    /\ Send((IF e.outcome = "session"
             THEN <<Request("closeRetired", e.call), Request("releaseSession", e.call)>> ELSE <<>>)
            \o <<Request("releaseOperation", e.call)>>)
    /\ cancelled' = cancelled \ {e.call}
    /\ UNCHANGED <<call, target, abandoned, early, sessions, alive, released, closed>>

(* Faulty variant of RetireOpen: what the cancelled open has opened is kept. *)
RetireOpenKeeping(e) ==
    /\ Send(<<Request("releaseOperation", e.call)>>)
    /\ cancelled' = cancelled \ {e.call}
    /\ UNCHANGED <<call, target, abandoned, early, sessions, alive, retired, released, closed>>

(* The event of an aborted open: what it has opened is closed, and          *)
(* SessionClosed will release the session.  With too many such sessions     *)
(* under way the binding closes.                                           *)
RetireOpen(e) ==
    \/ /\ e.outcome = "session" /\ Cardinality(retired) >= MaxRetired
       /\ OnClosed("gone")
       /\ UNCHANGED up
    \/ /\ e.outcome = "session" => Cardinality(retired) < MaxRetired
       /\ retired' = retired \cup (IF e.outcome = "session" THEN {e.call} ELSE {})
       /\ Send((IF e.outcome = "session" THEN <<Request("closeRetired", e.call)>> ELSE <<>>)
               \o <<Request("releaseOperation", e.call)>>)
       /\ cancelled' = cancelled \ {e.call}
       /\ UNCHANGED <<call, target, abandoned, early, sessions, alive, released, closed>>

(* Faulty variant of WaitOperation: the event that came first is forgotten.  *)
WaitOperationLate(c) ==
    /\ call' = [call EXCEPT ![c] = "waiting"]
    /\ UNCHANGED <<target, abandoned, early, cancelled, sessions, alive, retired, released, closed,
                   up>>

(* waitOperation registers the call and replays an event that came early.   *)
WaitOperation(c) ==
    \/ \E e \in early : e.call = c /\ Settle(e)
    \/ /\ \A e \in early : e.call # c
       /\ call' = [call EXCEPT ![c] = "waiting"]
       /\ UNCHANGED <<target, abandoned, early, cancelled, sessions, alive, retired, released,
                      closed, up>>

(* ACCEPTED.  For an abandoned request the backend cancels, best effort.    *)
ReceiveAccepted(m) ==
    /\ m.kind = "accepted"
    /\ \/ /\ m.call \in abandoned
          /\ abandoned' = abandoned \ {m.call}
          /\ Send(<<Request("cancel", m.call)>>)
          /\ UNCHANGED <<call, target, early, cancelled, sessions, alive, retired, released, closed>>
       \/ m.call \notin abandoned /\ WaitOperation(m.call)

(* ERROR in answer to a start request, of a clean-up command too.           *)
ReceiveRefused(m) ==
    /\ m.kind = "refused"
    /\ UNCHANGED up
    /\ \/ m.call \in Cleanups /\ OnClosed("cleanup")
       \/ /\ m.call \notin Cleanups
          /\ abandoned' = abandoned \ {m.call}
          /\ call' = [call EXCEPT ![m.call] = IF @ = "sent" THEN "settled" ELSE @]
          /\ UNCHANGED alive \/ (call[m.call] = "sent" /\ MarkStale(m.call))
          /\ UNCHANGED <<target, early, cancelled, sessions, retired, released, closed>>

(* ERROR in answer to a release, or to the close of a retired session: the  *)
(* client gives the whole binding up.  A user's close only rejects.         *)
ReceiveFailed(m) ==
    /\ \/ m.kind = "failed" /\ OnClosed("refused")
       \/ m.kind = "closeFailed" /\ OnClosed("cleanup")
    /\ UNCHANGED up

(* Faulty variant of QueueEarly: events nobody waits for pile up.            *)
QueueEarlyUnbounded(m) ==
    /\ early' = early \cup {m}
    /\ UNCHANGED <<call, target, abandoned, cancelled, sessions, alive, retired, released, closed,
                   up>>

(* An event that nobody waits for is kept for the ACCEPTED to come, up to a *)
(* limit.                                                                  *)
QueueEarly(m) ==
    \/ /\ Cardinality(early) < MaxEarly
       /\ early' = early \cup {m}
       /\ UNCHANGED <<call, target, abandoned, cancelled, sessions, alive, retired, released,
                      closed, up>>
    \/ /\ Cardinality(early) >= MaxEarly
       /\ OnClosed("gone")
       /\ UNCHANGED up

(* The event of an operation.                                               *)
ReceiveResult(m) ==
    /\ m.kind = "result"
    /\ \/ m.call \in cancelled \cap Executes /\ RetireExecute(m)
       \/ m.call \in cancelled \cap Opens /\ RetireOpen(m)
       \/ m.call \notin cancelled /\ call[m.call] = "waiting" /\ Settle(m)
       \/ m.call \notin cancelled /\ call[m.call] # "waiting" /\ QueueEarly(m)

(* SessionClosed: the client, not the session's user, releases the handle.  *)
ReceiveSessionClosed(m) ==
    /\ m.kind = "sessionClosed"
    /\ \/ /\ m.call \in released
          /\ UNCHANGED <<sessions, alive, retired, released, up>>
       \/ /\ m.call \notin released
          /\ released' = released \cup {m.call}
          /\ retired' = retired \ {m.call}
          /\ LET known == IF m.call \in retired THEN {} ELSE {m.call}
             IN sessions' = sessions \ known /\ alive' = alive \ known
          /\ Send(<<Request("releaseSession", m.call)>>)
    /\ UNCHANGED <<call, target, abandoned, early, cancelled, closed>>

(* handleMessage of the backend and onEvent of the client.                  *)
Receive ==
    /\ closed = "no" /\ down # <<>>
    /\ LET m == Head(down)
       IN \/ ReceiveAccepted(m) \/ ReceiveRefused(m) \/ ReceiveFailed(m)
          \/ ReceiveResult(m) \/ ReceiveSessionClosed(m)
    /\ closed' = "no" => down' = Tail(down)
    /\ UNCHANGED <<reply, events, attached, engineVars>>

(* client.close(), and the loss of the socket: a disconnect, a request that *)
(* timed out, a frame that does not decode.                                *)
CloseClient ==
    /\ closed = "no"
    /\ OnClosed("gone")
    /\ UNCHANGED <<up, reply, events, attached, engineVars>>

LoseSocket ==
    /\ closed = "no"
    /\ OnClosed("gone")
    /\ UNCHANGED <<up, reply, events, attached, engineVars>>

(***************************************************************************)
(* The bridge: requests one at a time, and the event pump beside them.      *)
(***************************************************************************)

Handles ==
    Cardinality({c \in Calls : op[c] \in {"active", "done"}})
    + Cardinality({c \in Opens : reg[c] \in {"open", "closing", "closed"}})

ActiveOps(s) == {c \in Executes : op[c] = "active" /\ target[c] = s}

(* OpenSession and Execute of the engine: startOperation allocates the      *)
(* handle and the goroutine starts.                                        *)
StartOperation(c) ==
    /\ \/ /\ Handles < MaxHandles
          /\ c \in Executes => reg[target[c]] = "open"
          /\ op' = [op EXCEPT ![c] = "active"]
          /\ run' = [run EXCEPT ![c] = "working"]
          /\ reply' = <<Request("accepted", c)>>
       \/ /\ Handles >= MaxHandles \/ (c \in Executes /\ reg[target[c]] # "open")
          /\ reply' = <<Request("refused", c)>>
          /\ UNCHANGED <<op, run>>
    /\ UNCHANGED <<ctxDone, host, reg>>

(* Cancel; that it fails for a finished operation is ignored by the client. *)
Cancel(c) ==
    /\ ctxDone' = IF op[c] = "active" THEN ctxDone \cup {c} ELSE ctxDone
    /\ UNCHANGED <<reply, op, run, host, reg>>

(* CloseSession: with an operation under way the close itself is deferred   *)
(* to the operation's end.  The session ends too if its Close fails.        *)
EngineCloseSession(c, retiring) ==
    LET now == reg[c] = "open" /\ ActiveOps(c) = {}
        answer(kind) == IF retiring THEN <<Request(kind, c)>> ELSE <<>>
    IN /\ reg' = [reg EXCEPT ![c] = IF @ = "open" THEN "closing" ELSE @]
       /\ host' = [host EXCEPT ![c] = IF now THEN "ended" ELSE @]
       /\ \/ reply' = IF reg[c] = "freed" THEN answer("failed") ELSE <<>>
          \/ now /\ reply' = answer("closeFailed")
       /\ UNCHANGED <<op, run, ctxDone>>

(* Release of a finished operation, and of a closed session.                *)
ReleaseOperation(c) ==
    /\ op' = [op EXCEPT ![c] = IF @ = "done" THEN "freed" ELSE @]
    /\ reply' = IF op[c] = "done" THEN <<>> ELSE <<Request("failed", c)>>
    /\ UNCHANGED <<run, ctxDone, host, reg>>

ReleaseSession(c) ==
    /\ reg' = [reg EXCEPT ![c] = IF @ = "closed" THEN "freed" ELSE @]
    /\ reply' = IF reg[c] = "closed" THEN <<>> ELSE <<Request("failed", c)>>
    /\ UNCHANGED <<run, op, ctxDone, host>>

(* handleRequest under dispatchMu; the answer is written before the next.   *)
HandleRequest ==
    /\ attached /\ reply = <<>> /\ up # <<>>
    /\ up' = Tail(up)
    /\ LET r == Head(up)
       IN \/ r.kind = "start" /\ StartOperation(r.call)
          \/ r.kind = "cancel" /\ Cancel(r.call)
          \/ r.kind \in {"close", "closeRetired"} /\ EngineCloseSession(r.call, r.kind = "closeRetired")
          \/ r.kind = "releaseOperation" /\ ReleaseOperation(r.call)
          \/ r.kind = "releaseSession" /\ ReleaseSession(r.call)
    /\ UNCHANGED <<call, target, clientVars, closed, down, events, attached>>

Deliver(m) == down' = IF closed = "no" THEN Append(down, m) ELSE down

SendReply ==
    /\ reply # <<>>
    /\ Deliver(Head(reply))
    /\ reply' = <<>>
    /\ UNCHANGED <<call, target, clientVars, closed, up, events, attached, engineVars>>

PumpEvent ==
    /\ attached /\ events # <<>>
    /\ Deliver(Head(events))
    /\ events' = Tail(events)
    /\ UNCHANGED <<call, target, clientVars, closed, up, reply, attached, engineVars>>

(* The bridge has lost the socket, or another page has attached its own     *)
(* renderer: retire and DetachRenderer revoke every handle and close every  *)
(* registered session.  Operations under way go on and find theirs gone.    *)
DetachRenderer ==
    /\ attached /\ reply = <<>>
    /\ attached' = FALSE
    /\ events' = <<>>
    /\ ctxDone' = Calls
    /\ op' = [c \in Calls |-> IF op[c] = "none" THEN "none" ELSE "freed"]
    /\ reg' = [c \in Opens |-> IF reg[c] = "none" THEN "none" ELSE "freed"]
    /\ host' = [c \in Opens |-> IF host[c] = "live" THEN "ended" ELSE host[c]]
    /\ UNCHANGED <<call, target, clientVars, closed, up, down, reply, run>>

(***************************************************************************)
(* The engine's goroutines.                                                *)
(***************************************************************************)

bridgeVars == <<call, target, clientVars, closed, up, down, reply, attached>>

Emit(m) == events' = IF attached THEN Append(events, m) ELSE events

(* host.OpenSession returns a session to runOpen.                           *)
HostOpens(c) ==
    /\ run[c] = "working" /\ host[c] = "none"
    /\ host' = [host EXCEPT ![c] = "ready"]
    /\ UNCHANGED <<bridgeVars, events, run, op, ctxDone, reg>>

(* Faulty variant of RegisterSession: only the context is looked at, which  *)
(* had not ended when the host returned.                                   *)
RegisterSessionUnchecked(c) ==
    /\ run[c] = "working" /\ host[c] = "ready"
    /\ \/ /\ Handles < MaxHandles
          /\ reg' = [reg EXCEPT ![c] = "open"]
          /\ host' = [host EXCEPT ![c] = "live"]
       \/ /\ Handles >= MaxHandles
          /\ host' = [host EXCEPT ![c] = "ended"]
          /\ UNCHANGED reg
    /\ op' = [op EXCEPT ![c] = IF @ = "active" THEN "done" ELSE @]
    /\ run' = [run EXCEPT ![c] = "emit"]
    /\ UNCHANGED <<bridgeVars, events, ctxDone>>

(* runOpen registers the session, unless the operation has been cancelled   *)
(* or revoked meanwhile, and marks the operation done.                     *)
RegisterSession(c) ==
    /\ run[c] = "working" /\ host[c] = "ready"
    /\ \/ /\ op[c] = "active" /\ c \notin ctxDone /\ Handles < MaxHandles
          /\ reg' = [reg EXCEPT ![c] = "open"]
          /\ host' = [host EXCEPT ![c] = "live"]
       \/ /\ op[c] # "active" \/ c \in ctxDone \/ Handles >= MaxHandles
          /\ host' = [host EXCEPT ![c] = "ended"]
          /\ UNCHANGED reg
    /\ op' = [op EXCEPT ![c] = IF @ = "active" THEN "done" ELSE @]
    /\ run' = [run EXCEPT ![c] = "emit"]
    /\ UNCHANGED <<bridgeVars, events, ctxDone>>

(* An open that failed, and the end of an execute: markOperationDone, with  *)
(* the close of the session that waited for its last operation.            *)
FinishOperation(c) ==
    /\ run[c] = "working"
    /\ c \in Opens => host[c] = "none"
    /\ op' = [op EXCEPT ![c] = IF @ = "active" THEN "done" ELSE @]
    /\ run' = [run EXCEPT ![c] = "emit"]
    /\ host' = [s \in Opens |-> IF reg[s] = "closing" /\ host[s] = "live" /\ ActiveOps(s) = {c}
                                THEN "ended" ELSE host[s]]
    /\ UNCHANGED <<bridgeVars, events, ctxDone, reg>>

(* What a result brings to the client.  "nothing" is also that an open has  *)
(* failed, or an execute with CANCELLED; "error" is any other error of an   *)
(* execute, among them that the engine could not clean up after a cancelled *)
(* one.  A Cancel that comes once runExecute has looked at its context does *)
(* not keep the result from owning a resource.                             *)
Outcomes(c) ==
    IF c \in Opens THEN {IF reg[c] # "none" THEN "session" ELSE "nothing"}
    ELSE {"nothing", "error"} \cup (IF c \in Owning THEN {"resource"} ELSE {})

(* emitForHandle; a revoked handle has no renderer to emit to.              *)
EmitResult(c) ==
    /\ run[c] = "emit"
    /\ run' = [run EXCEPT ![c] = "end"]
    /\ \/ op[c] = "done" /\ \E outcome \in Outcomes(c) : Emit(Result(c, outcome))
       \/ op[c] # "done" /\ UNCHANGED events
    /\ UNCHANGED <<bridgeVars, op, ctxDone, host, reg>>

(* The host's session ends by itself.                                       *)
SessionDies(c) ==
    /\ host[c] = "live"
    /\ host' = [host EXCEPT ![c] = "ended"]
    /\ UNCHANGED <<bridgeVars, events, run, op, ctxDone, reg>>

(* forwardSession, started after the open's event, sees the end:            *)
(* finishSession.                                                          *)
FinishSession(c) ==
    /\ run[c] = "end" /\ host[c] = "ended" /\ reg[c] \in {"open", "closing"}
    /\ reg' = [reg EXCEPT ![c] = "closed"]
    /\ Emit(Request("sessionClosed", c))
    /\ UNCHANGED <<bridgeVars, run, op, ctxDone, host>>

OpenStep(c) == HostOpens(c) \/ RegisterSession(c)
EngineStep(c) == FinishOperation(c) \/ EmitResult(c)

Next ==
    \/ \E c \in Calls : StartCall(c) \/ AbandonRequest(c) \/ AbandonOperation(c) \/ EngineStep(c)
    \/ \E c \in Cleanups : CleanupTimesOut(c)
    \/ \E c \in Opens : \/ OpenStep(c) \/ SessionDies(c) \/ FinishSession(c)
                        \/ CloseSession(c)
    \/ Receive \/ CloseClient \/ LoseSocket
    \/ HandleRequest \/ SendReply \/ PumpEvent \/ DetachRenderer

Spec == Init /\ [][Next]_vars

(* Goroutines, the event loop and the socket make progress; an operation    *)
(* ends (runOpen has openTimeout, an execute its session's transport); the  *)
(* client notices that the bridge has gone, and the bridge that the client  *)
(* has.  Callers, aborts, timeouts and the deaths of sessions owe nothing.  *)
Fairness ==
    /\ WF_vars(Receive) /\ WF_vars(HandleRequest) /\ WF_vars(SendReply) /\ WF_vars(PumpEvent)
    /\ WF_vars(~attached /\ LoseSocket) /\ WF_vars(closed # "no" /\ DetachRenderer)
    /\ \A c \in Calls : WF_vars(EngineStep(c))
    /\ \A c \in Opens : WF_vars(RegisterSession(c)) /\ WF_vars(FinishSession(c))

FairSpec == Spec /\ Fairness

(***************************************************************************)
(* Properties                                                              *)
(***************************************************************************)

Results == {Result(c, o) : c \in Calls, o \in {"session", "nothing", "error", "resource"}}
Queue(s, kinds) == \A i \in DOMAIN s : s[i].kind \in kinds /\ s[i].call \in Calls

(* Every variable has its type, and the events parked for calls that have   *)
(* not been accepted stay within their capacity.                           *)
TypeOK ==
    /\ call \in [Calls -> {"idle", "sent", "waiting", "settled", "aborted", "dropped"}]
    /\ target \in [Executes -> Opens]
    /\ abandoned \subseteq Calls /\ cancelled \subseteq Calls
    /\ sessions \subseteq Opens /\ alive \subseteq Opens
    /\ retired \subseteq Opens /\ released \subseteq Opens
    /\ closed \in {"no", "refused", "cleanup", "gone"}
    /\ Queue(up, {"start", "cancel", "close", "closeRetired", "releaseOperation", "releaseSession"})
    /\ Queue(down, {"accepted", "refused", "failed", "closeFailed", "result", "sessionClosed"})
    /\ Queue(reply, {"accepted", "refused", "failed", "closeFailed"}) /\ Len(reply) <= 1
    /\ Queue(events, {"result", "sessionClosed"})
    /\ early \subseteq Results /\ Cardinality(early) <= MaxEarly
    /\ attached \in BOOLEAN
    /\ run \in [Calls -> {"none", "working", "emit", "end"}]
    /\ op \in [Calls -> {"none", "active", "done", "freed"}]
    /\ ctxDone \subseteq Calls
    /\ host \in [Opens -> {"none", "ready", "live", "ended"}]
    /\ reg \in [Opens -> {"none", "open", "closing", "closed", "freed"}]

(* The client closes the whole binding, with every session in it, when the  *)
(* engine refuses a release or the close of a session it has retired.       *)
(* Whatever is aborted, closed or dies, and in whatever order the events    *)
(* arrive, it never asks for one too early, twice, or of a handle that is   *)
(* gone.  It does close the binding when the clean-up after an aborted call *)
(* fails in the host: closed = "cleanup".                                  *)
NoRequestRefused == closed # "refused"

(* No session of the host survives the renderer it was opened for: an open  *)
(* that is under way when the page goes away (the host has returned its     *)
(* session, runOpen has not registered it) closes it.                      *)
NoSessionOutlivesRenderer == ~attached => \A c \in Opens : host[c] # "live"

(* No call stays pending for ever, even if its event is on the socket       *)
(* before the ACCEPTED that tells which call it belongs to, and even if the *)
(* bridge or the socket goes away first.                                   *)
CallsSettle == \A c \in Calls : []<>(call[c] \notin Pending)

(* Nothing is left behind in the engine: an operation handle is released,   *)
(* however its call ended, and so is the handle of a session that has       *)
(* ended; a session whose call was aborted while it was being opened is     *)
(* closed and released.  The exception is a call aborted before ACCEPTED:   *)
(* the backend then cancels the operation, and nobody releases its handle   *)
(* or closes its session.                                                  *)
HandlesReclaimed ==
    /\ \A c \in Calls : []<>(op[c] \in {"none", "freed"} \/ call[c] = "dropped")
    /\ \A c \in Opens : []<>(call[c] = "aborted" => reg[c] \in {"none", "freed"})
    /\ \A c \in Opens : []<>(reg[c] # "closed")
=============================================================================
