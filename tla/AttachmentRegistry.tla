------------------------- MODULE AttachmentRegistry -------------------------
(* The provider's attachments and the resize ownership they compete for     *)
(* (pool/provider/attachments.go, attach_dispatch.go, streams.go and the    *)
(* session loop of server.go).                                             *)
(*                                                                         *)
(* A session is one client connection.  Its run loop hands each request to  *)
(* a goroutine of its own, so attach, detach, resize and resize-lock        *)
(* requests of one session interleave with each other, with those of other  *)
(* sessions and with the release of the session's attachments when the      *)
(* connection ends.  An attachment is one Go object of the session; the     *)
(* registry holds either a copy of it (after register) or a pointer to that *)
(* very object (after update), and dispatchResize writes the object's       *)
(* policy without the registry's lock.                                     *)
(*                                                                         *)
(* Surface and view names are left out: keys are unique, so the promotion   *)
(* order never reaches them, and nothing else compares them.               *)
EXTENDS Integers

CONSTANTS
    Sessions,   \* session ids, ordered as the promotion order needs
    Slots,      \* request goroutines of one session
    MaxChannel, \* attachments one session makes
    Terminals,  \* terminal ids
    Locked,     \* terminals whose tags carry the persisted size lock
    Removable,  \* terminals the core may remove and create again
    MaxEpoch    \* bound on the epochs the registry hands out

ASSUME RegistryAssumption ==
    /\ Sessions \subseteq Nat \ {0}
    /\ MaxChannel \in Nat \ {0}
    /\ MaxEpoch \in Nat
    /\ Locked \subseteq Terminals
    /\ Removable \subseteq Terminals

VARIABLES
    obj,       \* the sessions' attachment objects
    copy,      \* the registry's copies of them, made by register
    byKey,     \* what the registry's entry is: absent, the copy or the object
    owners, epochs, sizeLocks, nextEpoch,
    nextChannel,
    bound,     \* keys in the sessions' attachments and tokens maps
    session,   \* where each session's run loop is
    releasing, \* keys releaseAttachments has taken and not yet unregistered
    req,       \* where each request goroutine is
    exists     \* terminals the core knows

registry == <<copy, byKey, owners, epochs, sizeLocks, nextEpoch>>
vars == <<obj, registry, nextChannel, bound, session, releasing, req, exists>>

Keys == Sessions \X (1 .. MaxChannel)
NoKey == <<0, 0>>
Requests == Sessions \X Slots
Modes == {"collaborator", "observer"}

(* "torn" is the string a racing reader or writer can leave: the pointer of *)
(* one policy with the length of another, equal to none of them.           *)
Policies == {"owner", "follower", "observer", "torn"}
Asked == {"unspecified", "owner", "follower", "observer"}

normalizeResizePolicy(p) == IF p = "unspecified" THEN "owner" ELSE p

Blank == [terminal |-> "none", mode |-> "collaborator", policy |-> "torn", epoch |-> 0]
Idle == [pc |-> "idle", key |-> NoKey, policy |-> "unspecified", take |-> FALSE,
         expected |-> 0]

Init ==
    /\ obj = [k \in Keys |-> Blank]
    /\ copy = [k \in Keys |-> Blank]
    /\ byKey = [k \in Keys |-> "absent"]
    /\ owners = [t \in Terminals |-> NoKey]
    /\ epochs = [t \in Terminals |-> 0]
    /\ sizeLocks = [t \in Terminals |-> "unset"]
    /\ nextEpoch = 0
    /\ nextChannel = [s \in Sessions |-> 0]
    /\ bound = {}
    /\ session = [s \in Sessions |-> "running"]
    /\ releasing = {}
    /\ req = [r \in Requests |-> Idle]
    /\ exists = Terminals

(***************************************************************************)
(* The registry's locked helpers.                                          *)
(***************************************************************************)

Registered(k) == byKey[k] # "absent"
Entry(k) == IF byKey[k] = "copy" THEN copy[k] ELSE obj[k]

attachmentPromotionLess(j, k) ==
    \/ j[1] < k[1]
    \/ j[1] = k[1] /\ j[2] < k[2]

(* Faulty variant of Waiting: a former owner, whose policy is still owner,   *)
(* is passed over.                                                         *)
WaitingFollowers(t, excluded) ==
    {k \in Keys : /\ Registered(k) /\ k # excluded
                  /\ Entry(k).terminal = t /\ Entry(k).policy = "follower"}

(* The attachments promoteOwnerLocked considers, and the one it selects.    *)
Waiting(t, excluded) ==
    {k \in Keys : /\ Registered(k) /\ k # excluded
                  /\ Entry(k).terminal = t /\ Entry(k).policy # "observer"}

Selected(t, excluded) ==
    CHOOSE k \in Waiting(t, excluded) :
        \A j \in Waiting(t, excluded) \ {k} : attachmentPromotionLess(k, j)

(* advanceEpochLocked.                                                      *)
AdvanceEpoch(t) ==
    /\ nextEpoch < MaxEpoch
    /\ nextEpoch' = nextEpoch + 1
    /\ epochs' = [epochs EXCEPT ![t] = nextEpoch + 1]

KeepEpochs == UNCHANGED <<epochs, nextEpoch>>

(* An object or copy that has become the owner's.                           *)
Owning(a) == [a EXCEPT !.policy = "owner", !.epoch = nextEpoch + 1]

(* Faulty variant of ReplaceOwner: no new epoch where nobody is promoted.    *)
ReplaceOwnerSameEpoch(t, k, objs, copies) ==
    IF Waiting(t, k) = {}
    THEN /\ owners' = [owners EXCEPT ![t] = NoKey]
         /\ obj' = objs /\ copy' = copies
         /\ KeepEpochs
    ELSE LET n == Selected(t, k)
         IN /\ AdvanceEpoch(t)
            /\ owners' = [owners EXCEPT ![t] = n]
            /\ IF byKey[n] = "copy"
               THEN copy' = [copies EXCEPT ![n] = Owning(@)] /\ obj' = objs
               ELSE obj' = [objs EXCEPT ![n] = Owning(@)] /\ copy' = copies

(* The owner k of t has gone or stepped down: promoteOwnerLocked, and the   *)
(* bare epoch advance where it finds nobody.  objs and copies are what the  *)
(* caller leaves.                                                          *)
ReplaceOwner(t, k, objs, copies) ==
    /\ AdvanceEpoch(t)
    /\ IF Waiting(t, k) = {}
       THEN /\ owners' = [owners EXCEPT ![t] = NoKey]
            /\ obj' = objs /\ copy' = copies
       ELSE LET n == Selected(t, k)
            IN /\ owners' = [owners EXCEPT ![t] = n]
               /\ IF byKey[n] = "copy"
                  THEN copy' = [copies EXCEPT ![n] = Owning(@)] /\ obj' = objs
                  ELSE obj' = [objs EXCEPT ![n] = Owning(@)] /\ copy' = copies

(* The copies once the registry's entry no longer points to that of k.      *)
Forget(k) == [copy EXCEPT ![k] = Blank]

(* unregister.                                                              *)
Unregister(k) ==
    LET t == obj[k].terminal
    IN /\ byKey' = [byKey EXCEPT ![k] = "absent"]
       /\ IF owners[t] = k
          THEN ReplaceOwner(t, k, obj, Forget(k))
          ELSE copy' = Forget(k) /\ KeepEpochs /\ UNCHANGED <<obj, owners>>
       /\ UNCHANGED sizeLocks

(***************************************************************************)
(* A session's requests.                                                   *)
(***************************************************************************)

sessions == <<nextChannel, bound, session, releasing>>

At(r, pc) == req[r].pc = pc
Goto(r, pc) == req' = [req EXCEPT ![r].pc = pc]
Return(r) == req' = [req EXCEPT ![r] = Idle]

(* attachmentForToken finds k for a request of its session.  The client has *)
(* the token only once the attach that made it has been answered.          *)
attachmentForToken(r, k) ==
    /\ k \in bound /\ k[1] = r[1]
    /\ \A q \in Requests : ~(At(q, "register") /\ req[q].key = k)

(* The run loop takes a request while it has a slot.                        *)
Accept(r) ==
    /\ session[r[1]] = "running" /\ At(r, "idle")
    /\ Goto(r, "accepted")
    /\ UNCHANGED <<obj, registry, sessions, exists>>

(* Any request that names no bound attachment or no terminal, or that an    *)
(* observer may not make, is answered with an error and changes nothing.    *)
Reject(r) ==
    /\ At(r, "accepted")
    /\ Return(r)
    /\ UNCHANGED <<obj, registry, sessions, exists>>

(* Faulty variant of StartAttach: one channel more than there are.           *)
StartAttachOneMore(r, t, mode, asked) ==
    LET s == r[1]
        k == <<s, nextChannel[s] + 1>>
        policy == normalizeResizePolicy(asked)
    IN /\ At(r, "accepted")
       /\ mode = "observer" => policy = "observer"
       /\ t \in exists
       /\ nextChannel[s] <= MaxChannel
       /\ nextChannel' = [nextChannel EXCEPT ![s] = @ + 1]
       /\ obj' = [obj EXCEPT ![k] = [terminal |-> t, mode |-> mode,
                                     policy |-> policy, epoch |-> 0]]
       /\ bound' = bound \cup {k}
       /\ req' = [req EXCEPT ![r] = [@ EXCEPT !.pc = "register", !.key = k]]
       /\ UNCHANGED <<registry, session, releasing, exists>>

(* dispatchAttach up to register: the object exists and is bound before the *)
(* registry hears of it.                                                   *)
StartAttach(r, t, mode, asked) ==
    LET s == r[1]
        k == <<s, nextChannel[s] + 1>>
        policy == normalizeResizePolicy(asked)
    IN /\ At(r, "accepted")
       /\ mode = "observer" => policy = "observer"
       /\ t \in exists
       /\ nextChannel[s] < MaxChannel
       /\ nextChannel' = [nextChannel EXCEPT ![s] = @ + 1]
       /\ obj' = [obj EXCEPT ![k] = [terminal |-> t, mode |-> mode,
                                     policy |-> policy, epoch |-> 0]]
       /\ bound' = bound \cup {k}
       /\ req' = [req EXCEPT ![r] = [@ EXCEPT !.pc = "register", !.key = k]]
       /\ UNCHANGED <<registry, session, releasing, exists>>

(* register, and the epoch that dispatchAttach then copies from the control *)
(* to the session's object, which no other request has yet.                *)
Register(r) ==
    LET k == req[r].key
        a == obj[k]
        t == a.terminal
        takeOwner == a.policy = "owner" \/ (owners[t] = NoKey /\ a.policy # "observer")
        told == IF takeOwner THEN Owning(a)
                ELSE IF owners[t] # NoKey THEN [a EXCEPT !.epoch = Entry(owners[t]).epoch]
                ELSE a
    IN /\ At(r, "register")
       /\ sizeLocks' = IF sizeLocks[t] = "unset" /\ t \in Locked
                       THEN [sizeLocks EXCEPT ![t] = "locked"] ELSE sizeLocks
       /\ IF takeOwner
          THEN AdvanceEpoch(t) /\ owners' = [owners EXCEPT ![t] = k]
          ELSE KeepEpochs /\ UNCHANGED owners
       /\ obj' = [obj EXCEPT ![k] = told]
       /\ copy' = [copy EXCEPT ![k] = IF takeOwner THEN Owning(a) ELSE a]
       /\ byKey' = [byKey EXCEPT ![k] = "copy"]
       /\ Return(r)
       /\ UNCHANGED <<sessions, exists>>

(* Faulty variant of StartResize: what an observer asks is not refused.      *)
StartResizeAnybody(r, k, asked, take, expected) ==
    LET writes == asked # "unspecified" /\ asked # obj[k].policy
    IN /\ At(r, "accepted")
       /\ attachmentForToken(r, k)
       /\ obj' = IF writes THEN [obj EXCEPT ![k].policy = "torn"] ELSE obj
       /\ req' = [req EXCEPT ![r] = [pc |-> IF writes THEN "write" ELSE "update", key |-> k,
                                     policy |-> IF writes THEN asked ELSE "unspecified",
                                     take |-> take, expected |-> expected]]
       /\ UNCHANGED <<registry, sessions, exists>>

(* dispatchResize: the token is looked up and, when the command names a     *)
(* policy, the first half of the unlocked write of it is under way.        *)
StartResize(r, k, asked, take, expected) ==
    LET writes == asked # "unspecified" /\ asked # obj[k].policy
    IN /\ At(r, "accepted")
       /\ attachmentForToken(r, k)
       /\ obj[k].mode = "observer" => ~take /\ normalizeResizePolicy(asked) = "observer"
       /\ obj' = IF writes THEN [obj EXCEPT ![k].policy = "torn"] ELSE obj
       /\ req' = [req EXCEPT ![r] = [pc |-> IF writes THEN "write" ELSE "update", key |-> k,
                                     policy |-> IF writes THEN asked ELSE "unspecified",
                                     take |-> take, expected |-> expected]]
       /\ UNCHANGED <<registry, sessions, exists>>

(* The second half: what a locked writer stored in between may survive, be  *)
(* overwritten, or be mixed with this value.                               *)
FinishWrite(r, p) ==
    LET k == req[r].key
    IN /\ At(r, "write")
       /\ p \in IF obj[k].policy = "torn" THEN {req[r].policy}
                ELSE {req[r].policy, obj[k].policy, "torn"}
       /\ obj' = [obj EXCEPT ![k].policy = p]
       /\ req' = [req EXCEPT ![r] = [@ EXCEPT !.pc = "update", !.policy = "unspecified"]]
       /\ UNCHANGED <<registry, sessions, exists>>

(* GetTerminal fails: the policy stays written and nothing else happens.    *)
ResizeNotFound(r) ==
    /\ At(r, "update")
    /\ obj[req[r].key].terminal \notin exists
    /\ Return(r)
    /\ UNCHANGED <<obj, registry, sessions, exists>>

(* Faulty variant of CanTakeOwner: a current epoch is enough.                *)
CanTakeOwnerUnasked(r, t) == req[r].expected \in {0, epochs[t]}

(* update: the entry becomes the session's object itself, whether or not    *)
(* the attachment was still registered.  The command's policy reaches the   *)
(* registry through the object; ownership moves to a taker whose epoch is   *)
(* current, or away from an owner whose policy is no longer owner.         *)
CanTakeOwner(r, t) ==
    req[r].take /\ req[r].expected \in {0, epochs[t]}

Update(r) ==
    LET k == req[r].key
        t == obj[k].terminal
        a == [obj[k] EXCEPT !.epoch = IF Registered(k) THEN Entry(k).epoch ELSE @]
        put(v) == [obj EXCEPT ![k] = v]
        taken == CanTakeOwner(r, t) /\ owners[t] # k
        demoted == ~taken /\ owners[t] = k /\ a.policy # "owner"
        kept == ~taken /\ owners[t] = k /\ a.policy = "owner"
        canResize == (taken \/ kept) /\ sizeLocks[t] # "locked"
    IN /\ At(r, "update")
       /\ t \in exists
       /\ byKey' = [byKey EXCEPT ![k] = "session"]
       /\ \/ /\ taken
             /\ AdvanceEpoch(t)
             /\ obj' = put(Owning(a))
             /\ owners' = [owners EXCEPT ![t] = k]
             /\ copy' = Forget(k)
          \/ /\ demoted
             /\ ReplaceOwner(t, k, put(a), Forget(k))
          \/ /\ kept
             /\ obj' = put([a EXCEPT !.epoch = epochs[t]])
             /\ copy' = Forget(k) /\ KeepEpochs /\ UNCHANGED owners
          \/ /\ ~taken /\ owners[t] # k
             /\ obj' = put(a)
             /\ copy' = Forget(k) /\ KeepEpochs /\ UNCHANGED owners
       /\ IF canResize
          THEN req' = [req EXCEPT ![r] = [Idle EXCEPT !.pc = "apply", !.key = k]]
          ELSE Return(r)
       /\ UNCHANGED <<sizeLocks, sessions, exists>>

(* ResizeTerminal, outside the registry's lock: the size goes to the PTY,    *)
(* even if another attachment has become the owner since.                  *)
Apply(r) ==
    /\ At(r, "apply")
    /\ Return(r)
    /\ UNCHANGED <<obj, registry, sessions, exists>>

(* A resize-lock request: the token is looked up, then setSizeLock.         *)
StartLock(r, k, locked) ==
    /\ At(r, "accepted")
    /\ attachmentForToken(r, k)
    /\ obj[k].terminal \in exists
    /\ req' = [req EXCEPT ![r] = [@ EXCEPT !.pc = "lock", !.key = k, !.take = locked]]
    /\ UNCHANGED <<obj, registry, sessions, exists>>

(* Faulty variant of SetSizeLock: the owner's entry keeps its old epoch.     *)
SetSizeLockOldEpoch(r) ==
    LET k == req[r].key
        t == obj[k].terminal
        lock == IF req[r].take THEN "locked" ELSE "unlocked"
        owns == Registered(k) /\ owners[t] = k /\ Entry(k).policy = "owner"
        changes == owns /\ (sizeLocks[t] = "locked") # req[r].take
    IN /\ At(r, "lock")
       /\ IF changes
          THEN AdvanceEpoch(t) /\ sizeLocks' = [sizeLocks EXCEPT ![t] = lock]
          ELSE KeepEpochs /\ UNCHANGED sizeLocks
       /\ obj' = IF owns THEN [obj EXCEPT ![k] = Entry(k)] ELSE obj
       /\ Return(r)
       /\ UNCHANGED <<copy, byKey, owners, sessions, exists>>

SetSizeLock(r) ==
    LET k == req[r].key
        t == obj[k].terminal
        lock == IF req[r].take THEN "locked" ELSE "unlocked"
        owns == Registered(k) /\ owners[t] = k /\ Entry(k).policy = "owner"
        changes == owns /\ (sizeLocks[t] = "locked") # req[r].take
        held == IF changes THEN [Entry(k) EXCEPT !.epoch = nextEpoch + 1] ELSE Entry(k)
    IN /\ At(r, "lock")
       /\ IF changes
          THEN AdvanceEpoch(t) /\ sizeLocks' = [sizeLocks EXCEPT ![t] = lock]
          ELSE KeepEpochs /\ UNCHANGED sizeLocks
       /\ obj' = IF owns THEN [obj EXCEPT ![k] = held] ELSE obj
       /\ copy' = IF changes /\ byKey[k] = "copy" THEN [copy EXCEPT ![k] = held] ELSE copy
       /\ Return(r)
       /\ UNCHANGED <<byKey, owners, sessions, exists>>

(* A detach request: look the token up, unbind, unregister.                 *)
StartDetach(r, k) ==
    /\ At(r, "accepted")
    /\ attachmentForToken(r, k)
    /\ req' = [req EXCEPT ![r] = [@ EXCEPT !.pc = "unbind", !.key = k]]
    /\ UNCHANGED <<obj, registry, sessions, exists>>

Unbind(r) ==
    /\ At(r, "unbind")
    /\ bound' = bound \ {req[r].key}
    /\ Goto(r, "unregister")
    /\ UNCHANGED <<obj, registry, nextChannel, session, releasing, exists>>

FinishDetach(r) ==
    /\ At(r, "unregister")
    /\ Unregister(req[r].key)
    /\ Return(r)
    /\ UNCHANGED <<sessions, exists>>

(***************************************************************************)
(* The end of a session: releaseAttachments takes what is bound and         *)
(* unregisters it one by one; requests.Wait comes after it.                *)
(***************************************************************************)

EndSession(s) ==
    /\ session[s] = "running"
    /\ session' = [session EXCEPT ![s] = "releasing"]
    /\ releasing' = releasing \cup {k \in bound : k[1] = s}
    /\ bound' = {k \in bound : k[1] # s}
    /\ UNCHANGED <<obj, registry, nextChannel, req, exists>>

ReleaseOne(k) ==
    /\ k \in releasing
    /\ releasing' = releasing \ {k}
    /\ Unregister(k)
    /\ UNCHANGED <<nextChannel, bound, session, req, exists>>

WaitRequests(s) ==
    /\ session[s] = "releasing"
    /\ \A k \in releasing : k[1] # s
    /\ \A r \in Requests : r[1] = s => At(r, "idle")
    /\ session' = [session EXCEPT ![s] = "ended"]
    /\ UNCHANGED <<obj, registry, nextChannel, bound, releasing, req, exists>>

(* The core removes a terminal, or creates one under the same id.  It tells *)
(* the registry nothing.                                                   *)
RemoveTerminal(t) ==
    /\ t \in exists \cap Removable
    /\ exists' = exists \ {t}
    /\ UNCHANGED <<obj, registry, sessions, req>>

CreateTerminal(t) ==
    /\ t \in Removable \ exists
    /\ exists' = exists \cup {t}
    /\ UNCHANGED <<obj, registry, sessions, req>>

RequestStep(r) ==
    \/ Accept(r) \/ Reject(r)
    \/ \E t \in Terminals, mode \in Modes, asked \in Asked : StartAttach(r, t, mode, asked)
    \/ Register(r)
    \/ \E k \in bound, asked \in Asked, take \in BOOLEAN, expected \in 0 .. nextEpoch :
          StartResize(r, k, asked, take, expected)
    \/ \E p \in Policies : FinishWrite(r, p)
    \/ ResizeNotFound(r) \/ Update(r) \/ Apply(r)
    \/ \E k \in bound, locked \in BOOLEAN : StartLock(r, k, locked)
    \/ SetSizeLock(r)
    \/ \E k \in bound : StartDetach(r, k)
    \/ Unbind(r) \/ FinishDetach(r)

Next ==
    \/ \E r \in Requests : RequestStep(r)
    \/ \E s \in Sessions : EndSession(s) \/ WaitRequests(s)
    \/ \E k \in releasing : ReleaseOne(k)
    \/ \E t \in Terminals : RemoveTerminal(t) \/ CreateTerminal(t)

Spec == Init /\ [][Next]_vars

(***************************************************************************)
(* Properties                                                              *)
(***************************************************************************)

(* Every variable holds values of its Go type.                              *)
Attachment == [terminal : Terminals \cup {"none"}, mode : Modes, policy : Policies,
               epoch : 0 .. MaxEpoch]

TypeOK ==
    /\ obj \in [Keys -> Attachment] /\ copy \in [Keys -> Attachment]
    /\ byKey \in [Keys -> {"absent", "copy", "session"}]
    /\ owners \in [Terminals -> Keys \cup {NoKey}]
    /\ epochs \in [Terminals -> 0 .. MaxEpoch]
    /\ sizeLocks \in [Terminals -> {"unset", "locked", "unlocked"}]
    /\ nextEpoch \in 0 .. MaxEpoch
    /\ nextChannel \in [Sessions -> 0 .. MaxChannel]
    /\ bound \subseteq Keys /\ releasing \subseteq Keys
    /\ session \in [Sessions -> {"running", "releasing", "ended"}]
    /\ req \in [Requests ->
                  [pc : {"idle", "accepted", "register", "write", "update", "apply", "lock",
                         "unbind", "unregister"},
                   key : Keys \cup {NoKey}, policy : Asked, take : BOOLEAN,
                   expected : 0 .. MaxEpoch]]
    /\ exists \subseteq Terminals

(* controlLocked reports the owner it finds through owners and byKey: the   *)
(* owner is always a registered attachment of that terminal, and never one  *)
(* made in observer mode, whatever attach, resize, detach and release       *)
(* requests race (ownership_test.go: "observer never becomes owner").       *)
OwnerIsCollaborator ==
    \A t \in Terminals :
        owners[t] # NoKey =>
            /\ Registered(owners[t])
            /\ Entry(owners[t]).terminal = t
            /\ Entry(owners[t]).mode = "collaborator"

(* Clients learn the epoch from the owner's entry (controlLocked) and       *)
(* update compares it with the terminal's (epochs): the two always agree,   *)
(* so a client that sends back what it was told is never refused as stale.  *)
OwnerEpochCurrent ==
    \A t \in Terminals : owners[t] # NoKey => Entry(owners[t]).epoch = epochs[t]

(* The owner of a terminal changes only together with its epoch, and the    *)
(* new epoch is above every epoch handed out before, to any terminal: an    *)
(* epoch a client has seen names one owner for ever, which is what makes    *)
(* expected_owner_epoch a fence ("stale epoch takeover was accepted").      *)
EpochFence ==
    [][\A t \in Terminals : owners'[t] # owners[t] => epochs'[t] > nextEpoch]_vars

(* A terminal loses its owner without a successor only when no other        *)
(* registered attachment of it may resize: the owner's detach, its session's *)
(* end and its stepping down all promote a waiting one.                    *)
OwnerLossPromotes ==
    [][\A t \in Terminals :
          owners[t] # NoKey /\ owners'[t] = NoKey =>
              \A k \in Keys : Registered(k) /\ Entry(k).terminal = t /\ k # owners[t]
                                 => Entry(k).policy = "observer"]_vars

(* An ordinary resize never takes ownership ("late ordinary resize stole    *)
(* ownership"): an attachment becomes the owner by registering, by a resize *)
(* that asked for it, or because the owner before it left or stepped down;  *)
(* in particular no request of the owner's is needed to lose it, and no     *)
(* request of a third attachment can hand it over.                         *)
TakenOnlyWhenAsked ==
    [][\A t \in Terminals, k \in Keys :
          owners[t] # NoKey /\ owners'[t] = k /\ owners[t] # k =>
              \/ \E r \in Requests : /\ req[r].key = k
                                       /\ req'[r] # req[r]
                                       /\ (req[r].pc = "register" \/ req[r].take)
              \/ byKey'[owners[t]] = "absent"
              \/ obj[owners[t]].policy # "owner"]_vars

Working(r, k) == req[r].key = k /\ ~At(r, "idle")

(* Detach releases the attachment (client.go: "Detach"): in a session that  *)
(* is still running, the registry holds only attachments the session has    *)
(* bound or is still working on.                                           *)
DetachReleases ==
    \A k \in Keys :
        Registered(k) /\ session[k[1]] = "running" =>
            k \in bound \/ \E r \in Requests : Working(r, k)
=============================================================================
