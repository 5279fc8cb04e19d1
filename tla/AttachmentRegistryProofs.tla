---------------------- MODULE AttachmentRegistryProofs ----------------------
(* Proofs about the attachment registry, for every set of sessions, request *)
(* goroutines and terminals and for every bound on channels and epochs.     *)
EXTENDS AttachmentRegistry, WellFoundedInduction, TLAPS

(***************************************************************************)
(* The inductive invariant.                                                *)
(***************************************************************************)

(* A session has made the attachments up to its last channel.               *)
Made(k) == k \in Keys /\ k[2] <= nextChannel[k[1]]

(* A request that has looked an attachment up, or is making one.            *)
Holds(r) == req[r].pc \notin {"idle", "accepted"}

(* Every attachment that is held, bound, being released or registered has   *)
(* been made, and one that has been made is of a terminal.                 *)
Known ==
    /\ \A r \in Requests : Holds(r) => Made(req[r].key)
    /\ \A k \in bound \cup releasing : Made(k)
    /\ \A k \in Keys : Registered(k) => Made(k)
    /\ \A k \in Keys : Made(k) => obj[k].terminal \in Terminals

(* The policy of an observer is observer, in the object and in the copy; a  *)
(* copy in use is of the object's terminal and mode; and no request that    *)
(* writes a policy or asks for the ownership works for an observer.         *)
Observers ==
    /\ \A k \in Keys : obj[k].mode = "observer" => obj[k].policy = "observer"
    /\ \A k \in Keys : byKey[k] = "copy" =>
          /\ copy[k].terminal = obj[k].terminal
          /\ copy[k].mode = obj[k].mode
          /\ copy[k].mode = "observer" => copy[k].policy = "observer"
    /\ \A r \in Requests :
          (req[r].pc = "write" \/ (req[r].pc = "update" /\ req[r].take))
             => obj[req[r].key].mode = "collaborator"

(* Until an attach has registered its attachment nobody else holds it.      *)
Private ==
    \A r \in Requests : At(r, "register") =>
        /\ byKey[req[r].key] = "absent"
        /\ \A q \in Requests \ {r} : Holds(q) => req[q].key # req[r].key

IndInv == TypeOK /\ Known /\ Observers /\ Private /\ OwnerIsCollaborator /\ OwnerEpochCurrent

-----------------------------------------------------------------------------
(***************************************************************************)
(* The promotion order.                                                    *)
(***************************************************************************)

(* A set of numbers that is not empty has a smallest element.               *)
LEMMA LeastNumber ==
  ASSUME NEW T \in SUBSET Nat, T # {}
  PROVE  \E x \in T : \A y \in T : x <= y
<1>1. PICK x \in T : \A y \in T : ~(<<y, x>> \in OpToRel(<, Nat))
  BY NatLessThanWellFounded, WFMin
<1>2. \A y \in T : ~(y < x)
  BY <1>1 DEF OpToRel
<1> QED
  BY <1>2

(* A key is a session and a channel, both positive numbers.                 *)
LEMMA KeyParts ==
  ASSUME NEW k \in Keys
  PROVE  /\ k[1] \in Sessions /\ k[1] \in Nat /\ k[1] # 0
         /\ k[2] \in 1 .. MaxChannel /\ k[2] \in Nat
         /\ k = <<k[1], k[2]>> /\ k # NoKey
<1>1. k[1] \in Sessions /\ k[2] \in 1 .. MaxChannel /\ k = <<k[1], k[2]>>
  BY DEF Keys
<1> QED
  BY <1>1, RegistryAssumption DEF NoKey

(* promoteOwnerLocked finds somebody whenever somebody waits: the promotion *)
(* order has a first element in every set of keys.                         *)
LEMMA SelectedWaits ==
  ASSUME NEW t, NEW excluded, Waiting(t, excluded) # {}
  PROVE  Selected(t, excluded) \in Waiting(t, excluded)
<1> DEFINE W == Waiting(t, excluded)
           S == {k[1] : k \in W}
<1>1. W \subseteq Keys /\ S \in SUBSET Nat /\ S # {}
  BY RegistryAssumption DEF Waiting, Keys
<1>2. PICK s \in S : \A x \in S : s <= x
  BY <1>1, LeastNumber
<1> DEFINE C == {k[2] : k \in {j \in W : j[1] = s}}
<1>3. C \in SUBSET Nat /\ C # {}
  BY <1>1, RegistryAssumption DEF Keys
<1>4. PICK c \in C : \A x \in C : c <= x
  BY <1>3, LeastNumber
<1>5. PICK k \in W : k[1] = s /\ k[2] = c
  BY <1>4
<1>6. ASSUME NEW j \in W \ {k} PROVE attachmentPromotionLess(k, j)
  <2>1. j \in Keys /\ k \in Keys /\ j # k
    BY <1>1, <1>5, <1>6
  <2>2. j[1] # k[1] \/ j[2] # k[2]
    BY <2>1 DEF Keys
  <2>3. k[1] <= j[1] /\ (j[1] = k[1] => k[2] <= j[2])
    BY <1>2, <1>4, <1>5, <1>6
  <2>4. j[1] \in Nat /\ k[1] \in Nat /\ j[2] \in Nat /\ k[2] \in Nat
    BY <2>1, KeyParts
  <2> QED
    BY <2>2, <2>3, <2>4 DEF attachmentPromotionLess
<1>7. \E n \in W : \A j \in W \ {n} : attachmentPromotionLess(n, j)
  BY <1>6
<1> QED
  BY <1>7, Zenon DEF Selected

-----------------------------------------------------------------------------
(***************************************************************************)
(* What the registry's helpers do to it.                                   *)
(***************************************************************************)

(* An attachment that becomes the owner's stays one.                        *)
LEMMA OwningType ==
  ASSUME NEW a \in Attachment, nextEpoch < MaxEpoch, nextEpoch \in Nat
  PROVE  /\ Owning(a) \in Attachment
         /\ Owning(a).terminal = a.terminal /\ Owning(a).mode = a.mode
         /\ Owning(a).policy = "owner" /\ Owning(a).epoch = nextEpoch + 1
<1> DEFINE b == [a EXCEPT !.policy = "owner"]
<1>1. b \in Attachment /\ b.terminal = a.terminal /\ b.mode = a.mode /\ b.policy = "owner"
  BY DEF Attachment, Policies
<1>2. Owning(a) = [b EXCEPT !.epoch = nextEpoch + 1]
  BY Zenon DEF Owning
<1> HIDE DEF b
<1>3. nextEpoch + 1 \in 0 .. MaxEpoch
  BY RegistryAssumption
<1> QED
  BY <1>1, <1>2, <1>3 DEF Attachment

(* The registry's view of an attachment.                                    *)
LEMMA EntryType ==
  ASSUME TypeOK, NEW k \in Keys
  PROVE  Entry(k) \in Attachment
  BY DEF TypeOK, Entry

(* What replacing an owner does: the epoch advances, and either nobody      *)
(* waits and the terminal is left without an owner, or one that waits       *)
(* becomes the owner, in the object or copy the registry looks at.          *)
LEMMA ReplaceEffect ==
  ASSUME NEW t, NEW k, NEW objs, NEW copies, ReplaceOwner(t, k, objs, copies)
  PROVE  /\ nextEpoch < MaxEpoch /\ nextEpoch' = nextEpoch + 1
         /\ epochs' = [epochs EXCEPT ![t] = nextEpoch + 1]
         /\ \/ /\ Waiting(t, k) = {}
               /\ owners' = [owners EXCEPT ![t] = NoKey]
               /\ obj' = objs /\ copy' = copies
            \/ \E n \in Waiting(t, k) :
                  /\ owners' = [owners EXCEPT ![t] = n]
                  /\ \/ /\ byKey[n] = "copy" /\ obj' = objs
                        /\ copy' = [copies EXCEPT ![n] = Owning(@)]
                     \/ /\ byKey[n] # "copy" /\ copy' = copies
                        /\ obj' = [objs EXCEPT ![n] = Owning(@)]
<1>1. nextEpoch < MaxEpoch /\ nextEpoch' = nextEpoch + 1
         /\ epochs' = [epochs EXCEPT ![t] = nextEpoch + 1]
  BY DEF ReplaceOwner, AdvanceEpoch
<1>2. CASE Waiting(t, k) = {}
  BY <1>1, <1>2 DEF ReplaceOwner
<1>3. CASE Waiting(t, k) # {}
  <2> DEFINE n == Selected(t, k)
  <2>1. n \in Waiting(t, k)
    BY <1>3, SelectedWaits
  <2>2. /\ owners' = [owners EXCEPT ![t] = n]
        /\ IF byKey[n] = "copy"
           THEN copy' = [copies EXCEPT ![n] = Owning(@)] /\ obj' = objs
           ELSE obj' = [objs EXCEPT ![n] = Owning(@)] /\ copy' = copies
    BY <1>3 DEF ReplaceOwner
  <2> HIDE DEF n
  <2> QED
    BY <1>1, <2>1, <2>2
<1> QED
  BY <1>2, <1>3

(* The steps that change the registry or an attachment; all others leave    *)
(* both alone.                                                             *)
LEMMA RegistrySteps ==
  ASSUME [Next]_vars
  PROVE  \/ UNCHANGED <<obj, registry>>
         \/ \E r \in Requests :
              \/ \E t \in Terminals, mode \in Modes, asked \in Asked :
                    StartAttach(r, t, mode, asked)
              \/ Register(r)
              \/ \E k \in bound, asked \in Asked, take \in BOOLEAN, expected \in 0 .. nextEpoch :
                    StartResize(r, k, asked, take, expected)
              \/ \E p \in Policies : FinishWrite(r, p)
              \/ Update(r)
              \/ SetSizeLock(r)
              \/ FinishDetach(r)
         \/ \E k \in releasing : ReleaseOne(k)
<1>1. ASSUME NEW r \in Requests,
             \/ Accept(r) \/ Reject(r) \/ ResizeNotFound(r) \/ Apply(r)
             \/ \E k \in bound, locked \in BOOLEAN : StartLock(r, k, locked)
             \/ \E k \in bound : StartDetach(r, k)
             \/ Unbind(r)
      PROVE  UNCHANGED <<obj, registry>>
  BY <1>1 DEF Accept, Reject, ResizeNotFound, Apply, StartLock, StartDetach, Unbind
<1>2. ASSUME \/ \E s \in Sessions : EndSession(s) \/ WaitRequests(s)
             \/ \E t \in Terminals : RemoveTerminal(t) \/ CreateTerminal(t)
             \/ UNCHANGED vars
      PROVE  UNCHANGED <<obj, registry>>
  BY <1>2 DEF EndSession, WaitRequests, RemoveTerminal, CreateTerminal, vars
<1> QED
  BY <1>1, <1>2 DEF Next, RequestStep

-----------------------------------------------------------------------------
(***************************************************************************)
(* Types.                                                                  *)
(***************************************************************************)

Request == [pc : {"idle", "accepted", "register", "write", "update", "apply", "lock",
                  "unbind", "unregister"},
            key : Keys \cup {NoKey}, policy : Asked, take : BOOLEAN, expected : 0 .. MaxEpoch]

(* The registry's part of the type invariant, and the requests'.            *)
RegistryType ==
    /\ obj \in [Keys -> Attachment] /\ copy \in [Keys -> Attachment]
    /\ byKey \in [Keys -> {"absent", "copy", "session"}]
    /\ owners \in [Terminals -> Keys \cup {NoKey}]
    /\ epochs \in [Terminals -> 0 .. MaxEpoch]
    /\ sizeLocks \in [Terminals -> {"unset", "locked", "unlocked"}]
    /\ nextEpoch \in 0 .. MaxEpoch

SessionType ==
    /\ nextChannel \in [Sessions -> 0 .. MaxChannel]
    /\ bound \subseteq Keys /\ releasing \subseteq Keys
    /\ session \in [Sessions -> {"running", "releasing", "ended"}]
    /\ req \in [Requests -> Request]
    /\ exists \subseteq Terminals

(* The type invariant, split into what registry.mu guards and what the      *)
(* sessions and their requests hold.                                        *)
LEMMA TypeParts == TypeOK <=> RegistryType /\ SessionType
  BY DEF TypeOK, RegistryType, SessionType, Request

(* The zero value of an attachment and an idle request goroutine have their *)
(* types.                                                                   *)
LEMMA BlankType == Blank \in Attachment /\ Idle \in Request
<1>1. Blank \in Attachment
  BY RegistryAssumption DEF Blank, Attachment, Modes, Policies
<1>2. Idle \in Request
  BY RegistryAssumption DEF Idle, Request, Asked
<1> QED
  BY <1>1, <1>2

(* A registry from newAttachmentRegistry, with no session connected, is     *)
(* type correct.                                                            *)
LEMMA InitType == Init => TypeOK
<1> SUFFICES ASSUME Init PROVE RegistryType /\ SessionType
  BY TypeParts
<1>1. RegistryType
  BY BlankType, RegistryAssumption DEF Init, RegistryType
<1>2. SessionType
  BY BlankType, RegistryAssumption DEF Init, SessionType
<1> QED
  BY <1>1, <1>2

(* The session's object with the epoch of its entry, as update leaves it.    *)
Refreshed(k) == [obj[k] EXCEPT !.epoch = IF Registered(k) THEN Entry(k).epoch ELSE @]

(* A request that has looked an attachment up holds one that has been made. *)
LEMMA HeldKey ==
  ASSUME IndInv, NEW r \in Requests, Holds(r)
  PROVE  /\ req[r].key \in Keys /\ Made(req[r].key)
         /\ obj[req[r].key] \in Attachment
         /\ obj[req[r].key].terminal \in Terminals
  BY DEF IndInv, TypeOK, Known, Made

(* What update leaves in the session is an attachment of the same terminal, *)
(* mode and policy, with the registry's epoch when it is registered.        *)
LEMMA RefreshedType ==
  ASSUME TypeOK, NEW k \in Keys
  PROVE  /\ Refreshed(k) \in Attachment
         /\ Refreshed(k).terminal = obj[k].terminal /\ Refreshed(k).mode = obj[k].mode
         /\ Refreshed(k).policy = obj[k].policy
         /\ Registered(k) => Refreshed(k).epoch = Entry(k).epoch
<1>1. obj[k] \in Attachment /\ Entry(k) \in Attachment
  BY EntryType DEF TypeOK
<1>2. (IF Registered(k) THEN Entry(k).epoch ELSE obj[k].epoch) \in 0 .. MaxEpoch
  BY <1>1 DEF Attachment
<1> QED
  BY <1>1, <1>2 DEF Refreshed, Attachment

(* The four outcomes of update: taken, demoted, kept, and not the owner.    *)
LEMMA UpdateEffect ==
  ASSUME NEW r \in Requests, Update(r)
  PROVE  LET k == req[r].key
             t == obj[k].terminal
             put(v) == [obj EXCEPT ![k] = v]
         IN /\ At(r, "update") /\ byKey' = [byKey EXCEPT ![k] = "session"]
            /\ sizeLocks' = sizeLocks
            /\ \/ /\ CanTakeOwner(r, t) /\ owners[t] # k
                  /\ AdvanceEpoch(t)
                  /\ obj' = put(Owning(Refreshed(k)))
                  /\ owners' = [owners EXCEPT ![t] = k]
                  /\ copy' = Forget(k)
               \/ /\ owners[t] = k /\ Refreshed(k).policy # "owner"
                  /\ ReplaceOwner(t, k, put(Refreshed(k)), Forget(k))
               \/ /\ owners[t] = k
                  /\ obj' = put([Refreshed(k) EXCEPT !.epoch = epochs[t]])
                  /\ copy' = Forget(k) /\ KeepEpochs /\ UNCHANGED owners
               \/ /\ owners[t] # k
                  /\ obj' = put(Refreshed(k))
                  /\ copy' = Forget(k) /\ KeepEpochs /\ UNCHANGED owners
  BY Zenon DEF Update, Refreshed

(* The registry stays of its type: an owner found through a terminal of an  *)
(* attachment that has been made is an owner of a terminal.                *)
LEMMA RegistryTypeStep == IndInv /\ [Next]_vars => RegistryType'
<1> SUFFICES ASSUME IndInv, [Next]_vars PROVE RegistryType'
  OBVIOUS
<1>0. RegistryType /\ SessionType /\ TypeOK /\ Known
  BY TypeParts DEF IndInv
<1>n. nextEpoch \in Nat /\ MaxEpoch \in Nat
  BY <1>0, RegistryAssumption DEF RegistryType
<1>e. ASSUME NEW t \in Terminals, AdvanceEpoch(t)
      PROVE  /\ epochs' \in [Terminals -> 0 .. MaxEpoch] /\ nextEpoch' \in 0 .. MaxEpoch
             /\ nextEpoch < MaxEpoch
  BY <1>0, <1>n, <1>e DEF AdvanceEpoch, RegistryType
<1>k. ASSUME KeepEpochs
      PROVE  epochs' \in [Terminals -> 0 .. MaxEpoch] /\ nextEpoch' \in 0 .. MaxEpoch
  BY <1>0, <1>k DEF KeepEpochs, RegistryType
<1>h. ASSUME NEW r \in Requests, Holds(r) PROVE req[r].key \in Keys /\ Made(req[r].key)
                                                /\ obj[req[r].key].terminal \in Terminals
  BY <1>0, <1>h DEF Known, Made
<1>r. ASSUME NEW t \in Terminals, NEW k \in Keys, NEW objs \in [Keys -> Attachment],
             NEW copies \in [Keys -> Attachment], ReplaceOwner(t, k, objs, copies)
      PROVE  /\ obj' \in [Keys -> Attachment] /\ copy' \in [Keys -> Attachment]
             /\ owners' \in [Terminals -> Keys \cup {NoKey}]
             /\ epochs' \in [Terminals -> 0 .. MaxEpoch] /\ nextEpoch' \in 0 .. MaxEpoch
  <2>1. AdvanceEpoch(t)
    BY <1>r DEF ReplaceOwner
  <2>2. CASE Waiting(t, k) = {}
    BY <1>0, <1>e, <1>r, <2>1, <2>2 DEF ReplaceOwner, RegistryType
  <2>3. ASSUME NEW n \in Waiting(t, k), owners' = [owners EXCEPT ![t] = n],
               \/ /\ byKey[n] = "copy" /\ obj' = objs
                  /\ copy' = [copies EXCEPT ![n] = Owning(@)]
               \/ /\ byKey[n] # "copy" /\ copy' = copies
                  /\ obj' = [objs EXCEPT ![n] = Owning(@)]
        PROVE  /\ obj' \in [Keys -> Attachment] /\ copy' \in [Keys -> Attachment]
               /\ owners' \in [Terminals -> Keys \cup {NoKey}]
    <3>1. n \in Keys
      BY DEF Waiting
    <3>2. Owning(objs[n]) \in Attachment /\ Owning(copies[n]) \in Attachment
      BY <1>n, <1>e, <2>1, <3>1, OwningType
    <3> QED
      BY <1>0, <2>3, <3>1, <3>2 DEF RegistryType
  <2> QED
    BY <1>e, <1>r, <2>1, <2>2, <2>3, ReplaceEffect
<1>u. ASSUME NEW k \in Keys, Made(k), Unregister(k) PROVE RegistryType'
  <2> DEFINE t == obj[k].terminal
  <2>1. t \in Terminals /\ Forget(k) \in [Keys -> Attachment]
    BY <1>0, <1>u, BlankType DEF Known, Forget, RegistryType
  <2>2. byKey' \in [Keys -> {"absent", "copy", "session"}] /\ sizeLocks' = sizeLocks
    BY <1>0, <1>u DEF Unregister, RegistryType
  <2>3. CASE owners[t] = k
    <3>1. ReplaceOwner(t, k, obj, Forget(k))
      BY <1>u, <2>3 DEF Unregister
    <3> QED
      BY <1>0, <1>r, <2>1, <2>2, <3>1 DEF RegistryType
  <2>4. CASE owners[t] # k
    BY <1>0, <1>k, <1>u, <2>1, <2>2, <2>4 DEF Unregister, RegistryType
  <2> QED
    BY <2>3, <2>4
<1>1. CASE UNCHANGED <<obj, registry>>
  BY <1>0, <1>1 DEF RegistryType, registry
<1>2. ASSUME NEW r \in Requests, NEW t \in Terminals, NEW mode \in Modes, NEW asked \in Asked,
             StartAttach(r, t, mode, asked)
      PROVE  RegistryType'
  <2> DEFINE k == <<r[1], nextChannel[r[1]] + 1>>
             a == [terminal |-> t, mode |-> mode, policy |-> normalizeResizePolicy(asked),
                   epoch |-> 0]
  <2>1. a \in Attachment
    BY <1>n DEF Attachment, normalizeResizePolicy, Asked, Policies
  <2>2. obj' = [obj EXCEPT ![k] = a] /\ UNCHANGED registry
    BY <1>2 DEF StartAttach
  <2> QED
    BY <1>0, <2>1, <2>2 DEF RegistryType, registry
<1>3. ASSUME NEW r \in Requests, Register(r) PROVE RegistryType'
  <2> DEFINE k == req[r].key
             a == obj[k]
             t == a.terminal
             takeOwner == a.policy = "owner" \/ (owners[t] = NoKey /\ a.policy # "observer")
             told == IF takeOwner THEN Owning(a)
                     ELSE IF owners[t] # NoKey THEN [a EXCEPT !.epoch = Entry(owners[t]).epoch]
                     ELSE a
  <2>1. k \in Keys /\ t \in Terminals /\ a \in Attachment
    BY <1>0, <1>h, <1>3 DEF Register, At, Holds, RegistryType
  <2>2. /\ sizeLocks' = IF sizeLocks[t] = "unset" /\ t \in Locked
                        THEN [sizeLocks EXCEPT ![t] = "locked"] ELSE sizeLocks
        /\ IF takeOwner
           THEN AdvanceEpoch(t) /\ owners' = [owners EXCEPT ![t] = k]
           ELSE KeepEpochs /\ UNCHANGED owners
        /\ obj' = [obj EXCEPT ![k] = told]
        /\ copy' = [copy EXCEPT ![k] = IF takeOwner THEN Owning(a) ELSE a]
        /\ byKey' = [byKey EXCEPT ![k] = "copy"]
    BY <1>3 DEF Register
  <2>3. /\ told \in Attachment /\ (IF takeOwner THEN Owning(a) ELSE a) \in Attachment
        /\ epochs' \in [Terminals -> 0 .. MaxEpoch] /\ nextEpoch' \in 0 .. MaxEpoch
    <3>1. CASE takeOwner
      <4>1. AdvanceEpoch(t)
        BY <2>2, <3>1
      <4> QED
        BY <1>e, <1>n, <2>1, <3>1, <4>1, OwningType
    <3>2. CASE ~takeOwner /\ owners[t] # NoKey
      <4>1. owners[t] \in Keys
        BY <1>0, <2>1, <3>2 DEF RegistryType
      <4>2. Entry(owners[t]).epoch \in 0 .. MaxEpoch
        BY <1>0, <4>1, EntryType DEF Attachment
      <4>3. [a EXCEPT !.epoch = Entry(owners[t]).epoch] \in Attachment
        BY <2>1, <4>2 DEF Attachment
      <4> QED
        BY <1>k, <2>1, <2>2, <3>2, <4>3
    <3>3. CASE ~takeOwner /\ owners[t] = NoKey
      BY <1>k, <2>1, <2>2, <3>3
    <3> QED
      BY <3>1, <3>2, <3>3
  <2> HIDE DEF told, a, k, takeOwner
  <2> QED
    BY <1>0, <2>1, <2>2, <2>3 DEF RegistryType
<1>4. ASSUME NEW r \in Requests, NEW k \in bound, NEW asked \in Asked, NEW take \in BOOLEAN,
             NEW expected \in 0 .. nextEpoch, StartResize(r, k, asked, take, expected)
      PROVE  RegistryType'
  <2>1. [obj[k] EXCEPT !.policy = "torn"] \in Attachment
    <3>1. obj[k] \in Attachment
      BY <1>0 DEF RegistryType, SessionType
    <3> QED
      BY <3>1 DEF Attachment, Policies
  <2>2. UNCHANGED registry /\ (obj' = obj \/ obj' = [obj EXCEPT ![k].policy = "torn"])
    BY <1>4 DEF StartResize
  <2> QED
    BY <1>0, <2>1, <2>2 DEF RegistryType, registry
<1>5. ASSUME NEW r \in Requests, NEW p \in Policies, FinishWrite(r, p) PROVE RegistryType'
  <2>1. req[r].key \in Keys
    BY <1>h, <1>5 DEF FinishWrite, At, Holds
  <2>2. [obj[req[r].key] EXCEPT !.policy = p] \in Attachment
    BY <1>0, <2>1 DEF RegistryType, Attachment
  <2>3. UNCHANGED registry /\ obj' = [obj EXCEPT ![req[r].key].policy = p]
    BY <1>5 DEF FinishWrite
  <2> QED
    BY <1>0, <2>1, <2>2, <2>3 DEF RegistryType, registry
<1>6. ASSUME NEW r \in Requests, Update(r) PROVE RegistryType'
  <2> DEFINE k == req[r].key
             t == obj[k].terminal
             a == Refreshed(k)
  <2>1. k \in Keys /\ t \in Terminals
    BY <1>h, <1>6, UpdateEffect DEF At, Holds
  <2>2. /\ byKey' \in [Keys -> {"absent", "copy", "session"}] /\ sizeLocks' = sizeLocks
        /\ Forget(k) \in [Keys -> Attachment] /\ a \in Attachment
        /\ [obj EXCEPT ![k] = a] \in [Keys -> Attachment]
    BY <1>0, <1>6, <2>1, UpdateEffect, RefreshedType, BlankType DEF RegistryType, Forget
  <2>3. [a EXCEPT !.epoch = epochs[t]] \in Attachment
    BY <1>0, <2>1, <2>2 DEF RegistryType, Attachment
  <2>4. ASSUME AdvanceEpoch(t) PROVE Owning(a) \in Attachment
    BY <1>e, <1>n, <2>1, <2>2, <2>4, OwningType
  <2>5. \/ /\ AdvanceEpoch(t)
           /\ obj' = [obj EXCEPT ![k] = Owning(a)]
           /\ owners' = [owners EXCEPT ![t] = k]
           /\ copy' = Forget(k)
        \/ ReplaceOwner(t, k, [obj EXCEPT ![k] = a], Forget(k))
        \/ /\ obj' = [obj EXCEPT ![k] = [a EXCEPT !.epoch = epochs[t]]]
           /\ copy' = Forget(k) /\ KeepEpochs /\ UNCHANGED owners
        \/ /\ obj' = [obj EXCEPT ![k] = a]
           /\ copy' = Forget(k) /\ KeepEpochs /\ UNCHANGED owners
    BY <1>6, UpdateEffect, Zenon
  <2> HIDE DEF k, t, a
  <2>6. CASE ReplaceOwner(t, k, [obj EXCEPT ![k] = a], Forget(k))
    BY <1>0, <1>r, <2>1, <2>2, <2>6 DEF RegistryType
  <2>7. CASE AdvanceEpoch(t) /\ obj' = [obj EXCEPT ![k] = Owning(a)]
             /\ owners' = [owners EXCEPT ![t] = k] /\ copy' = Forget(k)
    BY <1>0, <1>e, <2>1, <2>2, <2>4, <2>7 DEF RegistryType
  <2>8. CASE copy' = Forget(k) /\ KeepEpochs /\ UNCHANGED owners
             /\ (obj' = [obj EXCEPT ![k] = [a EXCEPT !.epoch = epochs[t]]]
                 \/ obj' = [obj EXCEPT ![k] = a])
    BY <1>0, <1>k, <2>1, <2>2, <2>3, <2>8 DEF RegistryType
  <2> QED
    BY <2>5, <2>6, <2>7, <2>8
<1>7. ASSUME NEW r \in Requests, SetSizeLock(r) PROVE RegistryType'
  <2> DEFINE k == req[r].key
             t == obj[k].terminal
             e == Entry(k)
             f == [e EXCEPT !.epoch = nextEpoch + 1]
  <2>1. k \in Keys /\ t \in Terminals
    BY <1>h, <1>7 DEF SetSizeLock, At, Holds
  <2>2. e \in Attachment
    BY <1>0, <2>1, EntryType
  <2>3. /\ UNCHANGED <<byKey, owners>>
        /\ \/ /\ AdvanceEpoch(t)
              /\ \E v \in {"locked", "unlocked"} : sizeLocks' = [sizeLocks EXCEPT ![t] = v]
              /\ obj' = [obj EXCEPT ![k] = f]
              /\ copy' = copy \/ copy' = [copy EXCEPT ![k] = f]
           \/ /\ KeepEpochs /\ UNCHANGED <<sizeLocks, copy>>
              /\ obj' = obj \/ obj' = [obj EXCEPT ![k] = e]
    BY <1>7 DEF SetSizeLock
  <2>4. ASSUME AdvanceEpoch(t) PROVE f \in Attachment
    <3>1. nextEpoch + 1 \in 0 .. MaxEpoch
      BY <1>e, <1>n, <2>1, <2>4
    <3> QED
      BY <2>2, <3>1 DEF Attachment
  <2> HIDE DEF k, t, e, f
  <2>5. CASE KeepEpochs /\ UNCHANGED <<sizeLocks, copy>>
             /\ (obj' = obj \/ obj' = [obj EXCEPT ![k] = e])
    BY <1>0, <1>k, <2>1, <2>2, <2>3, <2>5 DEF RegistryType
  <2>6. CASE /\ AdvanceEpoch(t)
             /\ \E v \in {"locked", "unlocked"} : sizeLocks' = [sizeLocks EXCEPT ![t] = v]
             /\ obj' = [obj EXCEPT ![k] = f]
             /\ copy' = copy \/ copy' = [copy EXCEPT ![k] = f]
    BY <1>0, <1>e, <2>1, <2>3, <2>4, <2>6 DEF RegistryType
  <2> QED
    BY <2>3, <2>5, <2>6
<1>8. ASSUME NEW r \in Requests, FinishDetach(r) PROVE RegistryType'
  BY <1>h, <1>u, <1>8 DEF FinishDetach, At, Holds
<1>9. ASSUME NEW k \in releasing, ReleaseOne(k) PROVE RegistryType'
  BY <1>0, <1>u, <1>9 DEF ReleaseOne, Known, SessionType
<1> QED
  BY <1>1, <1>2, <1>3, <1>4, <1>5, <1>6, <1>7, <1>8, <1>9, RegistrySteps
-----------------------------------------------------------------------------
(***************************************************************************)
(* Requests and sessions.                                                  *)
(***************************************************************************)

(* How a request r of the session becomes x in one step, other than by      *)
(* making an attachment: it ends or is accepted, it goes on with the        *)
(* attachment it holds, or it looks one up.                                *)
Moves(r, x) ==
    \/ x.pc \in {"idle", "accepted"}
    \/ /\ Holds(r) /\ x.key = req[r].key
       /\ x.pc \notin {"register", "write"}
       /\ x.pc = "update" => At(r, "write")
    \/ /\ x.key \in bound /\ attachmentForToken(r, x.key)
       /\ x.pc # "register"
       /\ (x.pc = "write" \/ (x.pc = "update" /\ x.take)) => obj[x.key].mode = "collaborator"

(* A resize of an observer that passes dispatchResize's checks writes no     *)
(* policy and asks for nothing.                                            *)
LEMMA ResizeMoves ==
  ASSUME IndInv, NEW r \in Requests, NEW k \in bound, NEW asked \in Asked, NEW take \in BOOLEAN,
         NEW expected \in 0 .. nextEpoch, StartResize(r, k, asked, take, expected)
  PROVE  \E x \in Request : req' = [req EXCEPT ![r] = x] /\ Moves(r, x)
<1> DEFINE writes == asked # "unspecified" /\ asked # obj[k].policy
           x == [pc |-> IF writes THEN "write" ELSE "update", key |-> k,
                 policy |-> IF writes THEN asked ELSE "unspecified",
                 take |-> take, expected |-> expected]
<1>1. req' = [req EXCEPT ![r] = x] /\ attachmentForToken(r, k)
      /\ (obj[k].mode = "observer" => ~take /\ normalizeResizePolicy(asked) = "observer")
  BY DEF StartResize
<1>2. k \in Keys /\ expected \in 0 .. MaxEpoch /\ obj[k].mode \in Modes
  BY RegistryAssumption DEF IndInv, TypeOK, Attachment
<1>3. x \in Request
  BY <1>2 DEF Request, Asked
<1>4. obj[k].mode = "observer" => ~writes /\ ~take
  BY <1>1, <1>2 DEF IndInv, Observers, normalizeResizePolicy
<1>5. /\ x.key = k /\ x.pc # "register" /\ x.take = take
      /\ x.pc = "write" => writes
  OBVIOUS
<1> HIDE DEF x, writes
<1>6. (x.pc = "write" \/ (x.pc = "update" /\ x.take)) => obj[x.key].mode = "collaborator"
  BY <1>2, <1>4, <1>5 DEF Modes
<1> QED
  BY <1>1, <1>3, <1>5, <1>6 DEF Moves

(* Every step makes an attachment, or leaves the channels alone, binds and   *)
(* takes for release nothing new, and moves at most one request.            *)
LEMMA RequestEffect ==
  ASSUME IndInv, [Next]_vars
  PROVE  \/ \E r \in Requests, t \in Terminals, mode \in Modes, asked \in Asked :
              StartAttach(r, t, mode, asked)
         \/ /\ nextChannel' = nextChannel
            /\ bound' \subseteq bound /\ releasing' \subseteq releasing \cup bound
            /\ exists' \subseteq Terminals
            /\ session' \in [Sessions -> {"running", "releasing", "ended"}]
            /\ \/ req' = req
               \/ \E r \in Requests, x \in Request :
                     req' = [req EXCEPT ![r] = x] /\ Moves(r, x)
<1> DEFINE Quiet == /\ nextChannel' = nextChannel
                    /\ bound' \subseteq bound /\ releasing' \subseteq releasing \cup bound
                    /\ exists' \subseteq Terminals
                    /\ session' \in [Sessions -> {"running", "releasing", "ended"}]
           Moved(r) == \E x \in Request : req' = [req EXCEPT ![r] = x] /\ Moves(r, x)
<1>0. TypeOK /\ SessionType
  BY TypeParts DEF IndInv
<1>s. ASSUME UNCHANGED <<sessions, exists>> PROVE Quiet
  BY <1>0, <1>s DEF sessions, SessionType
<1>i. ASSUME NEW r \in Requests, Return(r) PROVE Moved(r)
  BY <1>i, BlankType DEF Return, Idle, Moves
<1>1. ASSUME NEW r \in Requests, Accept(r) PROVE Quiet /\ Moved(r)
  <2>1. req' = [req EXCEPT ![r] = [req[r] EXCEPT !.pc = "accepted"]]
    BY <1>0, <1>1 DEF Accept, Goto, SessionType
  <2>2. /\ [req[r] EXCEPT !.pc = "accepted"] \in Request
        /\ [req[r] EXCEPT !.pc = "accepted"].pc = "accepted"
    BY <1>0 DEF SessionType, Request
  <2>3. Moves(r, [req[r] EXCEPT !.pc = "accepted"])
    BY <2>2 DEF Moves
  <2> QED
    BY <1>1, <1>s, <2>1, <2>2, <2>3 DEF Accept
<1>2. ASSUME NEW r \in Requests, Reject(r) \/ ResizeNotFound(r) \/ Apply(r)
                                  \/ SetSizeLock(r) \/ Register(r) \/ FinishDetach(r)
      PROVE  Quiet /\ Moved(r)
  BY <1>i, <1>s, <1>2 DEF Reject, ResizeNotFound, Apply, SetSizeLock, Register, FinishDetach
<1>3. ASSUME NEW r \in Requests, NEW k \in bound, NEW asked \in Asked, NEW take \in BOOLEAN,
             NEW expected \in 0 .. nextEpoch, StartResize(r, k, asked, take, expected)
      PROVE  Quiet /\ Moved(r)
  BY <1>3, <1>s, ResizeMoves DEF StartResize
<1>4. ASSUME NEW r \in Requests, NEW p \in Policies, FinishWrite(r, p) PROVE Quiet /\ Moved(r)
  <2> DEFINE x == [req[r] EXCEPT !.pc = "update", !.policy = "unspecified"]
  <2>1. req' = [req EXCEPT ![r] = x] /\ At(r, "write") /\ Quiet
    BY <1>4, <1>s DEF FinishWrite
  <2>2. x \in Request /\ x.key = req[r].key /\ x.pc = "update"
    <3>1. req[r] \in Request
      BY <1>0 DEF SessionType
    <3> QED
      BY <3>1 DEF Request, Asked
  <2> HIDE DEF x
  <2>3. Moves(r, x)
    BY <2>1, <2>2 DEF Moves, Holds, At
  <2> QED
    BY <2>1, <2>2, <2>3
<1>5. ASSUME NEW r \in Requests, Update(r) PROVE Quiet /\ Moved(r)
  <2> DEFINE x == [Idle EXCEPT !.pc = "apply", !.key = req[r].key]
  <2>1. Quiet /\ At(r, "update") /\ (req' = [req EXCEPT ![r] = x] \/ Return(r))
    BY <1>5, <1>s DEF Update
  <2>2. req[r].key \in Keys
    BY <2>1, HeldKey DEF At, Holds
  <2>3. x \in Request /\ x.key = req[r].key /\ x.pc = "apply"
    BY <2>2, BlankType DEF Request, Idle
  <2> HIDE DEF x
  <2>4. Moves(r, x)
    BY <2>1, <2>3 DEF Moves, Holds, At
  <2> QED
    BY <1>i, <2>1, <2>3, <2>4
<1>6. ASSUME NEW r \in Requests, NEW k \in bound, NEW locked \in BOOLEAN, StartLock(r, k, locked)
      PROVE  Quiet /\ Moved(r)
  <2> DEFINE x == [req[r] EXCEPT !.pc = "lock", !.key = k, !.take = locked]
  <2>1. req' = [req EXCEPT ![r] = x] /\ attachmentForToken(r, k) /\ Quiet
    BY <1>6, <1>s DEF StartLock
  <2>2. x \in Request /\ x.key = k /\ x.pc = "lock"
    <3>1. req[r] \in Request /\ k \in Keys
      BY <1>0 DEF SessionType
    <3> QED
      BY <3>1 DEF Request
  <2> HIDE DEF x
  <2>3. Moves(r, x)
    BY <2>1, <2>2 DEF Moves
  <2> QED
    BY <2>1, <2>2, <2>3
<1>7. ASSUME NEW r \in Requests, NEW k \in bound, StartDetach(r, k) PROVE Quiet /\ Moved(r)
  <2> DEFINE x == [req[r] EXCEPT !.pc = "unbind", !.key = k]
  <2>1. req' = [req EXCEPT ![r] = x] /\ attachmentForToken(r, k) /\ Quiet
    BY <1>7, <1>s DEF StartDetach
  <2>2. x \in Request /\ x.key = k /\ x.pc = "unbind"
    <3>1. req[r] \in Request /\ k \in Keys
      BY <1>0 DEF SessionType
    <3> QED
      BY <3>1 DEF Request
  <2> HIDE DEF x
  <2>3. Moves(r, x)
    BY <2>1, <2>2 DEF Moves
  <2> QED
    BY <2>1, <2>2, <2>3
<1>8. ASSUME NEW r \in Requests, Unbind(r) PROVE Quiet /\ Moved(r)
  <2> DEFINE x == [req[r] EXCEPT !.pc = "unregister"]
  <2>1. req' = [req EXCEPT ![r] = x] /\ At(r, "unbind") /\ Quiet
    BY <1>0, <1>8 DEF Unbind, Goto, SessionType
  <2>2. x \in Request /\ x.key = req[r].key /\ x.pc = "unregister"
    BY <1>0 DEF SessionType, Request
  <2> HIDE DEF x
  <2>3. Moves(r, x)
    BY <2>1, <2>2 DEF Moves, Holds, At
  <2> QED
    BY <2>1, <2>2, <2>3
<1>9. ASSUME \/ \E s \in Sessions : EndSession(s) \/ WaitRequests(s)
             \/ \E k \in releasing : ReleaseOne(k)
             \/ \E t \in Terminals : RemoveTerminal(t) \/ CreateTerminal(t)
             \/ UNCHANGED vars
      PROVE  Quiet /\ req' = req
  BY <1>0, <1>9, RegistryAssumption
  DEF EndSession, WaitRequests, ReleaseOne, RemoveTerminal, CreateTerminal, vars, sessions, SessionType
<1> HIDE DEF Quiet, Moved
<1> QED
  <2>1. \/ \E r \in Requests, t \in Terminals, mode \in Modes, asked \in Asked :
              StartAttach(r, t, mode, asked)
        \/ \E r \in Requests : Quiet /\ Moved(r)
        \/ Quiet /\ req' = req
    BY <1>1, <1>2, <1>3, <1>4, <1>5, <1>6, <1>7, <1>8, <1>9 DEF Next, RequestStep
  <2> QED
    BY <2>1 DEF Quiet, Moved
(* What dispatchAttach makes is new: nobody has heard of its key.           *)
LEMMA AttachEffect ==
  ASSUME IndInv, NEW r \in Requests, NEW t \in Terminals, NEW mode \in Modes,
         NEW asked \in Asked, StartAttach(r, t, mode, asked)
  PROVE  \E k \in Keys, a \in Attachment, x \in Request :
            /\ ~Made(k) /\ ~Registered(k)
            /\ \A q \in Requests : Holds(q) => req[q].key # k
            /\ nextChannel' \in [Sessions -> 0 .. MaxChannel]
            /\ \A j \in Keys : Made(j)' <=> Made(j) \/ j = k
            /\ a.terminal \in Terminals
            /\ a.mode = "observer" => a.policy = "observer"
            /\ obj' = [obj EXCEPT ![k] = a] /\ UNCHANGED <<registry, session, releasing, exists>>
            /\ bound' = bound \cup {k}
            /\ x.pc = "register" /\ x.key = k /\ req' = [req EXCEPT ![r] = x]
<1> DEFINE s == r[1]
           k == <<s, nextChannel[s] + 1>>
           a == [terminal |-> t, mode |-> mode, policy |-> normalizeResizePolicy(asked),
                 epoch |-> 0]
           x == [req[r] EXCEPT !.pc = "register", !.key = k]
<1>0. TypeOK /\ SessionType /\ Known
  BY TypeParts DEF IndInv
<1>1. s \in Sessions /\ nextChannel[s] \in Nat /\ MaxChannel \in Nat
  <2>1. s \in Sessions
    BY DEF Requests
  <2> QED
    <3>1. nextChannel[s] \in 0 .. MaxChannel
      BY <1>0, <2>1 DEF SessionType
    <3> QED
      BY <2>1, <3>1, RegistryAssumption
<1>2. /\ nextChannel[s] < MaxChannel /\ nextChannel' = [nextChannel EXCEPT ![s] = @ + 1]
      /\ obj' = [obj EXCEPT ![k] = a] /\ UNCHANGED <<registry, session, releasing, exists>>
      /\ bound' = bound \cup {k} /\ req' = [req EXCEPT ![r] = x]
      /\ mode = "observer" => normalizeResizePolicy(asked) = "observer"
  BY DEF StartAttach
<1>3. k \in Keys /\ k[1] = s /\ k[2] = nextChannel[s] + 1
  BY <1>1, <1>2 DEF Keys
<1>4. a \in Attachment
  BY RegistryAssumption DEF Attachment, normalizeResizePolicy, Asked, Policies
<1>5. x \in Request /\ x.key = k /\ x.pc = "register"
  <2>1. req[r] \in Request
    BY <1>0 DEF SessionType
  <2> QED
    BY <1>3, <2>1 DEF Request
<1>6. nextChannel' \in [Sessions -> 0 .. MaxChannel]
  BY <1>0, <1>1, <1>2 DEF SessionType
<1>7. ~Made(k)
  BY <1>1, <1>3 DEF Made
<1>8. ASSUME NEW j \in Keys PROVE Made(j)' <=> Made(j) \/ j = k
  <2>1. j[1] \in Sessions /\ j[2] \in Nat /\ j = <<j[1], j[2]>>
    BY KeyParts
  <2>2. CASE j[1] = s
    <3>1. j = k <=> j[2] = nextChannel[s] + 1
      BY <2>1, <2>2, <1>3
    <3>2. nextChannel'[s] = nextChannel[s] + 1
      BY <1>0, <1>1, <1>2 DEF SessionType
    <3>3. Made(j)' <=> j[2] <= nextChannel[s] + 1
      BY <2>2, <3>2 DEF Made
    <3>4. Made(j) <=> j[2] <= nextChannel[s]
      BY <2>2 DEF Made
    <3> QED
      BY <1>1, <2>1, <3>1, <3>3, <3>4
  <2>3. CASE j[1] # s
    <3>1. j # k
      BY <1>3, <2>3
    <3>2. nextChannel'[j[1]] = nextChannel[j[1]]
      BY <1>0, <1>1, <1>2, <2>1, <2>3 DEF SessionType
    <3> QED
      BY <3>1, <3>2 DEF Made
  <2> QED
    BY <2>2, <2>3
<1>9. ~Registered(k) /\ \A q \in Requests : Holds(q) => req[q].key # k
  BY <1>0, <1>3, <1>7 DEF Known
<1>10. a.terminal \in Terminals /\ (a.mode = "observer" => a.policy = "observer")
  BY <1>2
<1> HIDE DEF k, a, x
<1> QED
  BY <1>2, <1>3, <1>4, <1>5, <1>6, <1>7, <1>8, <1>9, <1>10

(* An attachment that has been made stays made.                             *)
LEMMA MadeStays ==
  ASSUME IndInv, [Next]_vars, NEW k \in Keys, Made(k)
  PROVE  Made(k)'
  BY RequestEffect, AttachEffect DEF Made

(* Whatever a request of a session does (attach, lookup, policy change,     *)
(* detach), its locals and the session's channels keep their types.         *)
LEMMA SessionTypeStep == IndInv /\ [Next]_vars => SessionType'
<1> SUFFICES ASSUME IndInv, [Next]_vars PROVE SessionType'
  OBVIOUS
<1>0. SessionType
  BY TypeParts DEF IndInv
<1>1. ASSUME NEW r \in Requests, NEW t \in Terminals, NEW mode \in Modes, NEW asked \in Asked,
             StartAttach(r, t, mode, asked)
      PROVE  SessionType'
  BY <1>0, <1>1, AttachEffect DEF SessionType
<1>2. ASSUME NEW r \in Requests, NEW x \in Request, req' = [req EXCEPT ![r] = x]
      PROVE  req' \in [Requests -> Request]
  BY <1>0, <1>2 DEF SessionType
<1> QED
  BY <1>0, <1>1, <1>2, RequestEffect DEF SessionType
-----------------------------------------------------------------------------
(***************************************************************************)
(* Attachments and owners.                                                 *)
(***************************************************************************)

(* What Observers says of one attachment, and the two owner invariants of    *)
(* one terminal.                                                           *)
Faithful(k) ==
    /\ obj[k].mode = "observer" => obj[k].policy = "observer"
    /\ byKey[k] = "copy" =>
          /\ copy[k].terminal = obj[k].terminal
          /\ copy[k].mode = obj[k].mode
          /\ copy[k].mode = "observer" => copy[k].policy = "observer"

OwnerOK(t) ==
    owners[t] # NoKey =>
        /\ Registered(owners[t])
        /\ Entry(owners[t]).terminal = t
        /\ Entry(owners[t]).mode = "collaborator"
        /\ Entry(owners[t]).epoch = epochs[t]

(* A step keeps what an attachment is of.                                   *)
SameKind(k) == obj'[k].terminal = obj[k].terminal /\ obj'[k].mode = obj[k].mode

(* A step that concerns terminal t only.                                    *)
Local(t) ==
    /\ \A j \in Keys : obj[j].terminal # t =>
          obj'[j] = obj[j] /\ copy'[j] = copy[j] /\ byKey'[j] = byKey[j]
    /\ \A u \in Terminals \ {t} : owners'[u] = owners[u] /\ epochs'[u] = epochs[u]

Good ==
    /\ \A k \in Keys : SameKind(k) /\ Faithful(k)'
    /\ \A t \in Terminals : OwnerOK(t)'

(* The inductive invariant in the form the steps use: of every attachment,  *)
(* and of every owner the registry names.                                   *)
LEMMA GoodNow ==
  ASSUME IndInv
  PROVE  /\ \A k \in Keys : Faithful(k) /\ Entry(k).terminal = obj[k].terminal
                             /\ Entry(k).mode = obj[k].mode
         /\ \A t \in Terminals : OwnerOK(t)
         /\ \A t \in Terminals : owners[t] # NoKey =>
               owners[t] \in Keys /\ obj[owners[t]].terminal = t
<1>1. \A k \in Keys : Faithful(k) /\ Entry(k).terminal = obj[k].terminal
                       /\ Entry(k).mode = obj[k].mode
  BY DEF IndInv, Observers, Faithful, Entry
<1>2. \A t \in Terminals : OwnerOK(t)
  BY DEF IndInv, OwnerIsCollaborator, OwnerEpochCurrent, OwnerOK
<1>3. \A t \in Terminals : owners[t] # NoKey => owners[t] \in Keys
  BY DEF IndInv, TypeOK
<1> QED
  BY <1>1, <1>2, <1>3 DEF OwnerOK

(* The owner of another terminal is not disturbed.                          *)
LEMMA OwnersElsewhere ==
  ASSUME IndInv, NEW t \in Terminals, Local(t), NEW u \in Terminals \ {t}
  PROVE  OwnerOK(u)'
<1>1. owners'[u] = owners[u] /\ epochs'[u] = epochs[u]
  BY DEF Local
<1>2. CASE owners[u] # NoKey
  <2> DEFINE o == owners[u]
  <2>1. o \in Keys /\ obj[o].terminal = u /\ OwnerOK(u)
    BY <1>2, GoodNow
  <2>2. obj'[o] = obj[o] /\ copy'[o] = copy[o] /\ byKey'[o] = byKey[o]
    BY <2>1 DEF Local
  <2>3. (Entry(o) = Entry(o)' /\ (Registered(o) <=> Registered(o)'))
    BY <1>1, <2>2 DEF Entry, Registered
  <2> QED
    BY <1>1, <1>2, <2>1, <2>3 DEF OwnerOK, Entry, Registered
<1>3. CASE owners[u] = NoKey
  BY <1>1, <1>3 DEF OwnerOK
<1> QED
  BY <1>2, <1>3

(* Replacing an owner that leaves or steps down: the promoted attachment     *)
(* waited for this terminal and is no observer, and it is told the new      *)
(* epoch where the registry looks it up.                                   *)
LEMMA ReplaceGood ==
  ASSUME IndInv, NEW t \in Terminals, NEW k \in Keys, owners[t] = k,
         NEW a \in Attachment, a.terminal = obj[k].terminal, a.mode = obj[k].mode,
         a.mode = "observer" => a.policy = "observer",
         NEW v \in {"absent", "session"}, byKey' = [byKey EXCEPT ![k] = v],
         ReplaceOwner(t, k, [obj EXCEPT ![k] = a], Forget(k))
  PROVE  Good
<1> DEFINE objs == [obj EXCEPT ![k] = a]
<1>0. TypeOK
  BY DEF IndInv
<1>1. /\ nextEpoch < MaxEpoch /\ nextEpoch \in Nat
      /\ epochs' = [epochs EXCEPT ![t] = nextEpoch + 1] /\ epochs'[t] = nextEpoch + 1
  BY <1>0, ReplaceEffect, RegistryAssumption DEF TypeOK
<1>2. obj[k].terminal = t /\ \A j \in Keys : Faithful(j)
  BY GoodNow, KeyParts
<1>3. ASSUME NEW j \in Keys, obj'[j] = objs[j], copy'[j] = Forget(k)[j]
      PROVE  SameKind(j) /\ Faithful(j)'
  <2>1. objs[j] = IF j = k THEN a ELSE obj[j]
    BY <1>0 DEF TypeOK
  <2>2. byKey'[j] = IF j = k THEN v ELSE byKey[j]
    BY <1>0 DEF TypeOK
  <2>3. j # k => Forget(k)[j] = copy[j]
    BY <1>0 DEF TypeOK, Forget
  <2> QED
    BY <1>2, <1>3, <2>1, <2>2, <2>3 DEF SameKind, Faithful
<1>4. CASE Waiting(t, k) = {} /\ owners' = [owners EXCEPT ![t] = NoKey]
           /\ obj' = objs /\ copy' = Forget(k)
  <2>1. Local(t)
    BY <1>0, <1>1, <1>2, <1>4 DEF Local, TypeOK, Forget
  <2>2. OwnerOK(t)'
    BY <1>0, <1>4 DEF OwnerOK, TypeOK
  <2> QED
    BY <1>3, <1>4, <2>1, <2>2, OwnersElsewhere DEF Good
<1>5. ASSUME NEW n \in Waiting(t, k), owners' = [owners EXCEPT ![t] = n],
             \/ /\ byKey[n] = "copy" /\ obj' = objs
                /\ copy' = [Forget(k) EXCEPT ![n] = Owning(@)]
             \/ /\ byKey[n] # "copy" /\ copy' = Forget(k)
                /\ obj' = [objs EXCEPT ![n] = Owning(@)]
      PROVE  Good
  <2>1. /\ n \in Keys /\ n # k /\ Registered(n) /\ obj[n].terminal = t
        /\ Entry(n).policy # "observer"
    BY GoodNow DEF Waiting
  <2>2. objs[n] = obj[n] /\ Forget(k)[n] = copy[n] /\ byKey'[n] = byKey[n]
    BY <1>0, <2>1 DEF TypeOK, Forget
  <2>3. /\ obj[n] \in Attachment /\ copy[n] \in Attachment
    BY <1>0, <2>1 DEF TypeOK
  <2>4. \A j \in Keys \ {n} : obj'[j] = objs[j] /\ copy'[j] = Forget(k)[j]
    BY <1>0, <1>5, <2>1 DEF TypeOK, Forget
  <2>5. obj'[n] = (IF byKey[n] = "copy" THEN obj[n] ELSE Owning(obj[n]))
        /\ copy'[n] = (IF byKey[n] = "copy" THEN Owning(copy[n]) ELSE copy[n])
    <3>1. objs \in [Keys -> Attachment] /\ Forget(k) \in [Keys -> Attachment]
      BY <1>0, BlankType DEF TypeOK, Forget
    <3> HIDE DEF objs
    <3> QED
      BY <1>5, <2>1, <2>2, <3>1
  <2>6. ASSUME NEW b \in Attachment
        PROVE  /\ Owning(b).terminal = b.terminal /\ Owning(b).mode = b.mode
               /\ Owning(b).policy = "owner" /\ Owning(b).epoch = nextEpoch + 1
    BY <1>1, OwningType
  <2>7. Entry(n).mode = "collaborator"
    BY <1>2, <2>1, <2>3 DEF Entry, Faithful, Attachment, Modes
  <2>8. SameKind(n) /\ Faithful(n)'
    BY <1>2, <2>1, <2>2, <2>3, <2>5, <2>6, <2>7 DEF SameKind, Faithful, Entry
  <2>9. Local(t)
    <3>1. ASSUME NEW j \in Keys, obj[j].terminal # t
          PROVE  obj'[j] = obj[j] /\ copy'[j] = copy[j] /\ byKey'[j] = byKey[j]
      <4>1. j # k /\ j # n
        BY <1>2, <2>1, <3>1
      <4> QED
        BY <1>0, <2>4, <4>1 DEF TypeOK, Forget
    <3>2. \A u \in Terminals \ {t} : owners'[u] = owners[u] /\ epochs'[u] = epochs[u]
      BY <1>0, <1>1, <1>5 DEF TypeOK
    <3> QED
      BY <3>1, <3>2 DEF Local
  <2>10. OwnerOK(t)'
    <3>1. owners'[t] = n
      BY <1>0, <1>5 DEF TypeOK
    <3>2. Registered(n)'
      BY <2>1, <2>2 DEF Registered
    <3>3. /\ Entry(n)'.terminal = t /\ Entry(n)'.mode = "collaborator"
          /\ Entry(n)'.epoch = nextEpoch + 1
      BY <1>2, <2>1, <2>2, <2>3, <2>5, <2>6, <2>7 DEF Entry, Faithful
    <3> QED
      BY <1>1, <3>1, <3>2, <3>3 DEF OwnerOK, Registered, Entry
  <2> QED
    BY <1>3, <2>4, <2>8, <2>9, <2>10, OwnersElsewhere DEF Good
<1>6. \/ /\ Waiting(t, k) = {}
         /\ owners' = [owners EXCEPT ![t] = NoKey]
         /\ obj' = objs /\ copy' = Forget(k)
      \/ \E n \in Waiting(t, k) :
            /\ owners' = [owners EXCEPT ![t] = n]
            /\ \/ /\ byKey[n] = "copy" /\ obj' = objs
                  /\ copy' = [Forget(k) EXCEPT ![n] = Owning(@)]
               \/ /\ byKey[n] # "copy" /\ copy' = Forget(k)
                  /\ obj' = [objs EXCEPT ![n] = Owning(@)]
  <2>1. ReplaceOwner(t, k, objs, Forget(k))
    OBVIOUS
  <2> HIDE DEF objs
  <2> QED
    BY <2>1, ReplaceEffect
<1> HIDE DEF objs
<1> QED
  BY <1>4, <1>5, <1>6
(* An owner whose entry is not touched stays in order.                      *)
LEMMA OwnerUntouched ==
  ASSUME IndInv, NEW t \in Terminals, owners'[t] = owners[t], epochs'[t] = epochs[t],
         owners[t] # NoKey =>
            /\ obj'[owners[t]] = obj[owners[t]] /\ copy'[owners[t]] = copy[owners[t]]
            /\ byKey'[owners[t]] = byKey[owners[t]]
  PROVE  OwnerOK(t)'
  BY GoodNow DEF OwnerOK, Entry, Registered

(* What is written to attachment k alone, for its own terminal.             *)
LEMMA PutGood ==
  ASSUME IndInv, NEW k \in Keys, NEW t \in Terminals, t = obj[k].terminal,
         NEW a \in Attachment, a.terminal = t, a.mode = obj[k].mode,
         a.mode = "observer" => a.policy = "observer",
         obj' = [obj EXCEPT ![k] = a],
         \A j \in Keys \ {k} : copy'[j] = copy[j] /\ byKey'[j] = byKey[j],
         byKey'[k] = "copy" => /\ copy'[k].terminal = t /\ copy'[k].mode = a.mode
                               /\ copy'[k].mode = "observer" => copy'[k].policy = "observer",
         \A u \in Terminals \ {t} : owners'[u] = owners[u] /\ epochs'[u] = epochs[u],
         OwnerOK(t)'
  PROVE  Good
<1>0. obj'[k] = a /\ \A j \in Keys \ {k} : obj'[j] = obj[j]
  BY DEF IndInv, TypeOK
<1>1. \A j \in Keys : SameKind(j) /\ Faithful(j)'
  BY <1>0, GoodNow DEF SameKind, Faithful
<1>2. Local(t)
  BY <1>0 DEF Local
<1> QED
  BY <1>1, <1>2, OwnersElsewhere DEF Good

(* unregister, with the promotion of the next owner in it, leaves the       *)
(* owners right.                                                            *)
LEMMA UnregisterGood ==
  ASSUME IndInv, NEW k \in Keys, Made(k), Unregister(k), NEW t, t = obj[k].terminal
  PROVE  Good
<1>0. TypeOK /\ t \in Terminals /\ obj[k] \in Attachment /\ Faithful(k)
  BY GoodNow DEF IndInv, TypeOK, Known
<1>1. obj = [obj EXCEPT ![k] = obj[k]]
  BY <1>0 DEF TypeOK
<1>2. byKey' = [byKey EXCEPT ![k] = "absent"]
  BY DEF Unregister
<1>3. CASE owners[t] = k
  <2>1. ReplaceOwner(t, k, obj, Forget(k))
    BY <1>3 DEF Unregister
  <2>2. ReplaceOwner(t, k, [obj EXCEPT ![k] = obj[k]], Forget(k))
    BY <1>1, <2>1, Zenon
  <2> QED
    BY <1>0, <1>2, <1>3, <2>2, ReplaceGood DEF Faithful
<1>4. CASE owners[t] # k
  <2>1. /\ obj' = [obj EXCEPT ![k] = obj[k]] /\ copy' = Forget(k)
        /\ UNCHANGED <<owners, epochs, obj>>
    BY <1>1, <1>4 DEF Unregister, KeepEpochs
  <2>2. \A j \in Keys \ {k} : copy'[j] = copy[j] /\ byKey'[j] = byKey[j]
    BY <1>0, <1>2, <2>1 DEF TypeOK, Forget
  <2>3. byKey'[k] = "absent"
    BY <1>0, <1>2 DEF TypeOK
  <2>4. OwnerOK(t)'
    BY <1>0, <1>4, <2>1, <2>2, GoodNow, OwnerUntouched
  <2> QED
    BY <1>0, <2>1, <2>2, <2>3, <2>4, PutGood DEF Faithful
<1> QED
  BY <1>3, <1>4

(* register: the attachment was private and owned nothing before.           *)
LEMMA RegisterGood ==
  ASSUME IndInv, NEW r \in Requests, Register(r),
         NEW k, k = req[r].key, NEW t, t = obj[k].terminal
  PROVE  Good
<1> DEFINE a == obj[k]
           takeOwner == a.policy = "owner" \/ (owners[t] = NoKey /\ a.policy # "observer")
           told == IF takeOwner THEN Owning(a)
                   ELSE IF owners[t] # NoKey THEN [a EXCEPT !.epoch = Entry(owners[t]).epoch]
                   ELSE a
           kept == IF takeOwner THEN Owning(a) ELSE a
<1>0. TypeOK /\ At(r, "register") /\ nextEpoch \in Nat
  BY RegistryAssumption DEF Register, IndInv, TypeOK
<1>1. k \in Keys /\ t \in Terminals /\ a \in Attachment /\ Faithful(k)
  BY <1>0, HeldKey, GoodNow DEF At, Holds
<1>2. byKey[k] = "absent"
  BY <1>0 DEF IndInv, Private
<1>3. \A u \in Terminals : owners[u] # k
  BY <1>1, <1>2, GoodNow, KeyParts DEF OwnerOK, Registered
<1>4. /\ IF takeOwner
         THEN AdvanceEpoch(t) /\ owners' = [owners EXCEPT ![t] = k]
         ELSE KeepEpochs /\ UNCHANGED owners
      /\ obj' = [obj EXCEPT ![k] = told]
      /\ copy' = [copy EXCEPT ![k] = kept]
      /\ byKey' = [byKey EXCEPT ![k] = "copy"]
  BY DEF Register
<1>5. /\ \A j \in Keys \ {k} : copy'[j] = copy[j] /\ byKey'[j] = byKey[j]
      /\ byKey'[k] = "copy" /\ copy'[k] = kept
  BY <1>0, <1>1, <1>4 DEF TypeOK
<1>6. CASE takeOwner
  <2>1. AdvanceEpoch(t) /\ owners' = [owners EXCEPT ![t] = k] /\ told = Owning(a)
        /\ kept = Owning(a)
    BY <1>4, <1>6
  <2>2. /\ Owning(a) \in Attachment
        /\ Owning(a).terminal = t /\ Owning(a).mode = a.mode
        /\ Owning(a).policy = "owner" /\ Owning(a).epoch = nextEpoch + 1
    BY <1>0, <1>1, <2>1, OwningType DEF AdvanceEpoch
  <2>3. a.mode = "collaborator"
    BY <1>1, <1>6 DEF Faithful, Attachment, Modes
  <2>4. /\ owners'[t] = k /\ epochs'[t] = nextEpoch + 1
        /\ \A u \in Terminals \ {t} : owners'[u] = owners[u] /\ epochs'[u] = epochs[u]
    BY <1>0, <1>1, <2>1 DEF TypeOK, AdvanceEpoch
  <2>5. obj' = [obj EXCEPT ![k] = Owning(a)] /\ copy'[k] = Owning(a)
    BY <1>4, <1>5, <2>1
  <2>6. Owning(a).mode = obj[k].mode
    BY <2>2
  <2> DEFINE b == Owning(a)
  <2> HIDE DEF a, b, told, kept, takeOwner
  <2>7. /\ b \in Attachment /\ b.terminal = t /\ b.mode = obj[k].mode /\ b.mode = "collaborator"
        /\ b.epoch = nextEpoch + 1 /\ obj' = [obj EXCEPT ![k] = b] /\ copy'[k] = b
    BY <2>2, <2>3, <2>5, <2>6 DEF b
  <2>8. OwnerOK(t)'
    BY <1>5, <2>4, <2>7 DEF OwnerOK, Registered, Entry
  <2> QED
    BY <1>1, <1>5, <2>4, <2>7, <2>8, PutGood
<1>7. CASE ~takeOwner
  <2>1. UNCHANGED <<owners, epochs>> /\ kept = a
    BY <1>4, <1>7 DEF KeepEpochs
  <2>2. told \in Attachment /\ told.terminal = t /\ told.mode = a.mode /\ told.policy = a.policy
    <3>1. CASE owners[t] # NoKey
      <4>1. Entry(owners[t]).epoch \in 0 .. MaxEpoch
        BY <1>0, <1>1, <3>1, GoodNow, EntryType DEF Attachment
      <4>2. told = [a EXCEPT !.epoch = Entry(owners[t]).epoch]
        BY <1>7, <3>1
      <4> QED
        BY <1>1, <4>1, <4>2 DEF Attachment
    <3>2. CASE owners[t] = NoKey
      BY <1>1, <1>7, <3>2
    <3> QED
      BY <3>1, <3>2
  <2>3. OwnerOK(t)'
    <3>1. \A j \in Keys \ {k} : obj'[j] = obj[j]
      BY <1>0, <1>1, <1>4 DEF TypeOK
    <3> QED
      BY <1>1, <1>3, <1>5, <2>1, <3>1, GoodNow, OwnerUntouched
  <2> HIDE DEF told, kept, takeOwner
  <2> QED
    BY <1>1, <1>4, <1>5, <2>1, <2>2, <2>3, PutGood DEF Faithful
<1> QED
  BY <1>6, <1>7
(* update: a taker is no observer, and an owner that stays is told the       *)
(* terminal's epoch.                                                       *)
LEMMA UpdateGood ==
  ASSUME IndInv, NEW r \in Requests, Update(r),
         NEW k, k = req[r].key, NEW t, t = obj[k].terminal
  PROVE  Good
<1> DEFINE a == Refreshed(k)
<1>0. TypeOK /\ At(r, "update") /\ nextEpoch \in Nat
  BY RegistryAssumption DEF IndInv, TypeOK, Update
<1>1. k \in Keys /\ t \in Terminals /\ Faithful(k)
  BY <1>0, HeldKey, GoodNow DEF At, Holds
<1>2. /\ a \in Attachment /\ a.terminal = t /\ a.mode = obj[k].mode /\ a.policy = obj[k].policy
      /\ Registered(k) => a.epoch = Entry(k).epoch
  BY <1>0, <1>1, RefreshedType
<1>3. /\ byKey' = [byKey EXCEPT ![k] = "session"]
      /\ \/ /\ CanTakeOwner(r, t) /\ owners[t] # k
            /\ AdvanceEpoch(t)
            /\ obj' = [obj EXCEPT ![k] = Owning(a)]
            /\ owners' = [owners EXCEPT ![t] = k]
            /\ copy' = Forget(k)
         \/ /\ owners[t] = k
            /\ ReplaceOwner(t, k, [obj EXCEPT ![k] = a], Forget(k))
         \/ /\ owners[t] = k
            /\ obj' = [obj EXCEPT ![k] = [a EXCEPT !.epoch = epochs[t]]]
            /\ copy' = Forget(k) /\ KeepEpochs /\ UNCHANGED owners
         \/ /\ owners[t] # k
            /\ obj' = [obj EXCEPT ![k] = a]
            /\ copy' = Forget(k) /\ KeepEpochs /\ UNCHANGED owners
  BY UpdateEffect, Zenon
<1>4. byKey'[k] = "session" /\ \A j \in Keys \ {k} : byKey'[j] = byKey[j]
  BY <1>0, <1>1, <1>3 DEF TypeOK
<1>5. ASSUME copy' = Forget(k) PROVE \A j \in Keys \ {k} : copy'[j] = copy[j]
  BY <1>0, <1>5 DEF TypeOK, Forget
<1> HIDE DEF a
<1>6. CASE /\ CanTakeOwner(r, t) /\ AdvanceEpoch(t)
           /\ obj' = [obj EXCEPT ![k] = Owning(a)]
           /\ owners' = [owners EXCEPT ![t] = k]
           /\ copy' = Forget(k)
  <2>1. obj[k].mode = "collaborator"
    BY <1>0, <1>6 DEF IndInv, Observers, At, CanTakeOwner
  <2>2. PICK b \in Attachment : /\ b = Owning(a)
                                /\ b.terminal = t /\ b.mode = obj[k].mode
                                /\ b.epoch = nextEpoch + 1
    BY <1>0, <1>2, <1>6, OwningType DEF AdvanceEpoch
  <2>3. obj' = [obj EXCEPT ![k] = b] /\ obj'[k] = b
    BY <1>0, <1>1, <1>6, <2>2 DEF TypeOK
  <2>4. /\ owners'[t] = k /\ epochs'[t] = nextEpoch + 1
        /\ \A u \in Terminals \ {t} : owners'[u] = owners[u] /\ epochs'[u] = epochs[u]
    BY <1>0, <1>1, <1>6 DEF TypeOK, AdvanceEpoch
  <2>5. OwnerOK(t)'
    BY <1>4, <2>1, <2>2, <2>3, <2>4 DEF OwnerOK, Registered, Entry
  <2> QED
    <3>1. /\ \A j \in Keys \ {k} : copy'[j] = copy[j] /\ byKey'[j] = byKey[j]
          /\ b.mode = "observer" => b.policy = "observer"
      BY <1>4, <1>5, <1>6, <2>1, <2>2
    <3> QED
      BY <1>1, <1>4, <2>2, <2>3, <2>4, <2>5, <3>1, PutGood
<1>7. CASE owners[t] = k /\ ReplaceOwner(t, k, [obj EXCEPT ![k] = a], Forget(k))
  BY <1>1, <1>2, <1>3, <1>7, ReplaceGood DEF Faithful
<1>8. CASE /\ owners[t] = k
           /\ obj' = [obj EXCEPT ![k] = [a EXCEPT !.epoch = epochs[t]]]
           /\ copy' = Forget(k) /\ KeepEpochs /\ UNCHANGED owners
  <2> DEFINE b == [a EXCEPT !.epoch = epochs[t]]
  <2>1. /\ b \in Attachment /\ b.terminal = t /\ b.mode = obj[k].mode
        /\ b.policy = obj[k].policy /\ b.epoch = epochs[t]
    <3>1. epochs[t] \in 0 .. MaxEpoch
      BY <1>0, <1>1 DEF TypeOK
    <3> QED
      BY <1>2, <3>1 DEF Attachment
  <2>2. obj' = [obj EXCEPT ![k] = b] /\ obj'[k] = b
    BY <1>0, <1>1, <1>8, <2>1 DEF TypeOK
  <2> HIDE DEF b
  <2>3. obj[k].mode = "collaborator"
    BY <1>1, <1>8, GoodNow, KeyParts DEF OwnerOK
  <2>4. OwnerOK(t)'
    BY <1>4, <1>8, <2>1, <2>2, <2>3 DEF OwnerOK, Registered, Entry, KeepEpochs
  <2> QED
    <3>1. /\ \A j \in Keys \ {k} : copy'[j] = copy[j] /\ byKey'[j] = byKey[j]
          /\ b.mode = "observer" => b.policy = "observer"
          /\ \A u \in Terminals \ {t} : owners'[u] = owners[u] /\ epochs'[u] = epochs[u]
      BY <1>4, <1>5, <1>8, <2>1, <2>3 DEF KeepEpochs
    <3> QED
      BY <1>1, <1>4, <2>1, <2>2, <2>4, <3>1, PutGood
<1>9. CASE /\ owners[t] # k
           /\ obj' = [obj EXCEPT ![k] = a]
           /\ copy' = Forget(k) /\ KeepEpochs /\ UNCHANGED owners
  <2>1. \A j \in Keys \ {k} : obj'[j] = obj[j]
    BY <1>0, <1>9 DEF TypeOK
  <2>2. OwnerOK(t)'
    BY <1>1, <1>4, <1>5, <1>9, <2>1, GoodNow, OwnerUntouched DEF KeepEpochs
  <2> QED
    BY <1>1, <1>2, <1>4, <1>5, <1>9, <2>2, PutGood DEF KeepEpochs, Faithful
<1> QED
  BY <1>3, <1>6, <1>7, <1>8, <1>9

(* setSizeLock: the owner's entry and the session's object get the new       *)
(* epoch together.                                                         *)
LEMMA SizeLockGood ==
  ASSUME IndInv, NEW r \in Requests, SetSizeLock(r),
         NEW k, k = req[r].key, NEW t, t = obj[k].terminal
  PROVE  Good
<1> DEFINE e == Entry(k)
           f == [e EXCEPT !.epoch = nextEpoch + 1]
<1>0. TypeOK /\ At(r, "lock") /\ nextEpoch \in Nat
  BY RegistryAssumption DEF IndInv, TypeOK, SetSizeLock
<1>1. k \in Keys /\ t \in Terminals /\ obj[k] \in Attachment /\ Faithful(k)
  BY <1>0, HeldKey, GoodNow DEF At, Holds
<1>2. e \in Attachment /\ e.terminal = t /\ e.mode = obj[k].mode
      /\ (e.mode = "observer" => e.policy = "observer")
  BY <1>0, <1>1, EntryType, GoodNow DEF Faithful, Entry
<1>3. /\ UNCHANGED <<byKey, owners>>
      /\ \/ /\ owners[t] = k /\ AdvanceEpoch(t)
            /\ obj' = [obj EXCEPT ![k] = f]
            /\ copy' = IF byKey[k] = "copy" THEN [copy EXCEPT ![k] = f] ELSE copy
         \/ KeepEpochs /\ copy' = copy /\ owners[t] = k /\ obj' = [obj EXCEPT ![k] = e]
         \/ KeepEpochs /\ copy' = copy /\ obj' = obj
  BY DEF SetSizeLock
<1>4. ASSUME AdvanceEpoch(t)
      PROVE  /\ f \in Attachment /\ f.terminal = t /\ f.mode = obj[k].mode
             /\ f.mode = "observer" => f.policy = "observer"
             /\ f.epoch = nextEpoch + 1
  <2>1. nextEpoch + 1 \in 0 .. MaxEpoch
    BY <1>0, <1>4, RegistryAssumption DEF AdvanceEpoch
  <2> QED
    BY <1>2, <2>1 DEF Attachment
<1> HIDE DEF e, f
<1>5. CASE /\ owners[t] = k /\ AdvanceEpoch(t)
           /\ obj' = [obj EXCEPT ![k] = f]
           /\ copy' = IF byKey[k] = "copy" THEN [copy EXCEPT ![k] = f] ELSE copy
  <2>1. /\ byKey[k] = "copy" => copy'[k] = f
        /\ obj'[k] = f /\ \A j \in Keys \ {k} : copy'[j] = copy[j]
    BY <1>0, <1>1, <1>5 DEF TypeOK
  <2>2. /\ epochs'[t] = nextEpoch + 1 /\ owners' = owners /\ byKey' = byKey
        /\ \A u \in Terminals \ {t} : epochs'[u] = epochs[u]
    BY <1>0, <1>1, <1>3, <1>5 DEF TypeOK, AdvanceEpoch
  <2>3. OwnerOK(t)'
    <3>1. Registered(k) /\ obj[k].mode = "collaborator"
      BY <1>1, <1>5, GoodNow, KeyParts DEF OwnerOK
    <3> QED
      BY <1>4, <1>5, <2>1, <2>2, <3>1 DEF OwnerOK, Registered, Entry
  <2> QED
    <3>1. /\ \A j \in Keys \ {k} : copy'[j] = copy[j] /\ byKey'[j] = byKey[j]
          /\ f \in Attachment /\ f.terminal = t /\ f.mode = obj[k].mode
          /\ f.mode = "observer" => f.policy = "observer"
          /\ byKey'[k] = "copy" => copy'[k] = f
          /\ \A u \in Terminals \ {t} : owners'[u] = owners[u] /\ epochs'[u] = epochs[u]
          /\ obj' = [obj EXCEPT ![k] = f]
      BY <1>4, <1>5, <2>1, <2>2
    <3> QED
      BY <1>1, <2>3, <3>1, PutGood
<1>6. CASE KeepEpochs /\ copy' = copy /\ owners[t] = k /\ obj' = [obj EXCEPT ![k] = e]
  <2>1. obj'[k] = e
    BY <1>0, <1>1, <1>6 DEF TypeOK
  <2>2. OwnerOK(t)'
    <3>1. OwnerOK(t)
      BY <1>1, GoodNow
    <3> QED
      BY <1>3, <1>6, <2>1, <3>1 DEF OwnerOK, Registered, Entry, KeepEpochs, e
  <2> QED
    BY <1>1, <1>2, <1>3, <1>6, <2>2, PutGood DEF KeepEpochs, Faithful
<1>7. CASE KeepEpochs /\ copy' = copy /\ obj' = obj
  BY <1>3, <1>7, GoodNow
  DEF Good, SameKind, Faithful, OwnerOK, Registered, Entry, KeepEpochs
<1> QED
  BY <1>3, <1>5, <1>6, <1>7

(* The unlocked writes change the policy of an attachment that is no         *)
(* observer, and nothing that an owner must have.                          *)
LEMMA WriteGood ==
  ASSUME IndInv, NEW k \in Keys, Made(k), obj[k].mode = "collaborator", NEW p \in Policies,
         UNCHANGED registry, obj' = [obj EXCEPT ![k].policy = p]
  PROVE  Good
<1>0. TypeOK
  BY DEF IndInv
<1>1. PICK t \in Terminals : t = obj[k].terminal
  BY DEF IndInv, Known
<1> DEFINE a == [obj[k] EXCEPT !.policy = p]
<1>2. /\ a \in Attachment /\ a.terminal = t /\ a.mode = "collaborator" /\ a.policy = p
      /\ a.epoch = obj[k].epoch
  <2>1. obj[k] \in Attachment
    BY <1>0 DEF TypeOK
  <2> QED
    BY <1>1, <2>1 DEF Attachment
<1>3. obj' = [obj EXCEPT ![k] = a]
  BY <1>0, <1>2 DEF TypeOK
<1> HIDE DEF a
<1>4. UNCHANGED <<copy, byKey, owners, epochs>>
  BY DEF registry
<1>5. OwnerOK(t)'
  <2>1. OwnerOK(t) /\ (owners[t] # NoKey => owners[t] \in Keys)
    BY GoodNow
  <2>2. \A j \in Keys : /\ obj'[j].terminal = obj[j].terminal /\ obj'[j].mode = obj[j].mode
                        /\ obj'[j].epoch = obj[j].epoch
    BY <1>0, <1>1, <1>2, <1>3 DEF TypeOK
  <2> QED
    BY <1>4, <2>1, <2>2 DEF OwnerOK, Registered, Entry
<1>6. byKey'[k] = "copy" => /\ copy'[k].terminal = t /\ copy'[k].mode = "collaborator"
                            /\ copy'[k].mode = "observer" => copy'[k].policy = "observer"
  BY <1>1, <1>4, GoodNow DEF Faithful
<1> QED
  <2>1. /\ \A j \in Keys \ {k} : copy'[j] = copy[j] /\ byKey'[j] = byKey[j]
        /\ \A u \in Terminals \ {t} : owners'[u] = owners[u] /\ epochs'[u] = epochs[u]
        /\ a.mode = obj[k].mode /\ (a.mode = "observer" => a.policy = "observer")
        /\ byKey'[k] = "copy" => /\ copy'[k].terminal = t /\ copy'[k].mode = a.mode
                                 /\ copy'[k].mode = "observer" => copy'[k].policy = "observer"
    BY <1>2, <1>4, <1>6
  <2>2. a \in Attachment /\ a.terminal = t
    BY <1>2
  <2> QED
    BY <1>1, <1>3, <1>5, <2>1, <2>2, PutGood
(* Every step but dispatchAttach's first keeps what attachments are, and     *)
(* the owners in order.                                                    *)
LEMMA GoodStep ==
  ASSUME IndInv, [Next]_vars,
         \A r \in Requests, t \in Terminals, mode \in Modes, asked \in Asked :
            ~StartAttach(r, t, mode, asked)
  PROVE  Good
<1>0. TypeOK /\ Known
  BY DEF IndInv
<1>1. CASE UNCHANGED <<obj, registry>>
  BY <1>1, GoodNow DEF Good, SameKind, Faithful, OwnerOK, Registered, Entry, registry
<1>2. ASSUME NEW r \in Requests, Register(r) \/ Update(r) \/ SetSizeLock(r) PROVE Good
  BY <1>2, RegisterGood, UpdateGood, SizeLockGood
<1>3. ASSUME NEW r \in Requests, NEW k \in bound, NEW asked \in Asked, NEW take \in BOOLEAN,
             NEW expected \in 0 .. nextEpoch, StartResize(r, k, asked, take, expected)
      PROVE  Good
  <2>1. k \in Keys /\ Made(k) /\ obj[k] \in Attachment
    BY <1>0 DEF TypeOK, Known
  <2>2. CASE obj' = obj
    BY <1>1, <1>3, <2>2 DEF StartResize
  <2>3. CASE obj' # obj
    <3>1. /\ obj' = [obj EXCEPT ![k].policy = "torn"] /\ UNCHANGED registry
          /\ asked # obj[k].policy
          /\ obj[k].mode = "observer" => normalizeResizePolicy(asked) = "observer"
      BY <1>3, <2>3 DEF StartResize
    <3>2. obj[k].mode = "collaborator"
      BY <2>1, <3>1, GoodNow DEF Faithful, normalizeResizePolicy, Attachment, Modes
    <3> QED
      BY <2>1, <3>1, <3>2, WriteGood DEF Policies
  <2> QED
    BY <2>2, <2>3
<1>4. ASSUME NEW r \in Requests, NEW p \in Policies, FinishWrite(r, p) PROVE Good
  <2>1. obj[req[r].key].mode = "collaborator"
    BY <1>4 DEF FinishWrite, At, IndInv, Observers
  <2>2. req[r].key \in Keys /\ Made(req[r].key)
    BY <1>4, HeldKey DEF FinishWrite, At, Holds
  <2>3. obj' = [obj EXCEPT ![req[r].key].policy = p] /\ UNCHANGED registry
    BY <1>4 DEF FinishWrite
  <2> QED
    BY <2>1, <2>2, <2>3, WriteGood
<1>5. ASSUME NEW r \in Requests, FinishDetach(r) PROVE Good
  BY <1>5, HeldKey, UnregisterGood DEF FinishDetach, At, Holds
<1>6. ASSUME NEW k \in releasing, ReleaseOne(k) PROVE Good
  BY <1>0, <1>6, UnregisterGood DEF ReleaseOne, TypeOK, Known
<1> QED
  BY <1>1, <1>2, <1>3, <1>4, <1>5, <1>6, RegistrySteps

(* dispatchAttach's first step touches a key that owns nothing.             *)
LEMMA AttachGood ==
  ASSUME IndInv, NEW k \in Keys, NEW a \in Attachment, ~Registered(k),
         a.mode = "observer" => a.policy = "observer",
         obj' = [obj EXCEPT ![k] = a], UNCHANGED registry
  PROVE  /\ \A j \in Keys : Faithful(j)'
         /\ \A t \in Terminals : OwnerOK(t)'
<1>0. TypeOK /\ UNCHANGED <<copy, byKey, owners, epochs>>
  BY DEF IndInv, registry
<1>1. obj'[k] = a /\ \A j \in Keys \ {k} : obj'[j] = obj[j]
  BY <1>0 DEF TypeOK
<1>2. \A j \in Keys : Faithful(j)'
  BY <1>0, <1>1, GoodNow DEF Faithful, Registered
<1>3. ASSUME NEW t \in Terminals PROVE OwnerOK(t)'
  <2>1. owners[t] # k
    BY GoodNow, KeyParts DEF OwnerOK
  <2> QED
    BY <1>0, <1>1, <2>1, GoodNow, OwnerUntouched
<1> QED
  BY <1>2, <1>3
(* Only register and update put an attachment into the registry, for the     *)
(* request that holds it.                                                  *)
LEMMA RegisteredBy ==
  ASSUME IndInv, [Next]_vars, NEW k \in Keys, Registered(k)'
  PROVE  \/ Registered(k)
         \/ \E r \in Requests : /\ At(r, "register") \/ At(r, "update")
                                /\ req[r].key = k /\ req'[r].pc # "register"
<1>0. TypeOK
  BY DEF IndInv
<1>1. ASSUME NEW r \in Requests, Register(r) \/ Update(r), ~Registered(k)
      PROVE  /\ At(r, "register") \/ At(r, "update")
             /\ req[r].key = k /\ req'[r].pc # "register"
  <2> DEFINE x == [Idle EXCEPT !.pc = "apply", !.key = req[r].key]
  <2>1. /\ At(r, "register") \/ At(r, "update")
        /\ \E v : byKey' = [byKey EXCEPT ![req[r].key] = v]
        /\ req' = [req EXCEPT ![r] = Idle] \/ req' = [req EXCEPT ![r] = x]
    BY <1>1 DEF Register, Update, Return
  <2>2. x.pc = "apply" /\ Idle.pc = "idle"
    BY DEF Idle
  <2> HIDE DEF x
  <2>3. req'[r].pc # "register"
    BY <1>0, <2>1, <2>2 DEF TypeOK
  <2>4. req[r].key = k
    BY <1>0, <1>1, <2>1 DEF TypeOK, Registered
  <2> QED
    BY <2>1, <2>3, <2>4
<1>2. ASSUME byKey' = byKey PROVE Registered(k)
  BY <1>2 DEF Registered
<1>3. ASSUME NEW j, byKey' = [byKey EXCEPT ![j] = "absent"] PROVE Registered(k)
  BY <1>0, <1>3 DEF Registered, TypeOK
<1>4. ASSUME NEW r \in Requests,
             \/ \E t \in Terminals, mode \in Modes, asked \in Asked : StartAttach(r, t, mode, asked)
             \/ \E j \in bound, asked \in Asked, take \in BOOLEAN, expected \in 0 .. nextEpoch :
                   StartResize(r, j, asked, take, expected)
             \/ \E p \in Policies : FinishWrite(r, p)
             \/ SetSizeLock(r)
      PROVE  byKey' = byKey
  BY <1>4 DEF StartAttach, StartResize, FinishWrite, SetSizeLock, registry
<1>5. ASSUME NEW r \in Requests, FinishDetach(r) PROVE Registered(k)
  BY <1>3, <1>5 DEF FinishDetach, Unregister
<1>6. ASSUME NEW j \in releasing, ReleaseOne(j) PROVE Registered(k)
  BY <1>3, <1>6 DEF ReleaseOne, Unregister
<1>7. ASSUME UNCHANGED <<obj, registry>> PROVE byKey' = byKey
  BY <1>7 DEF registry
<1> QED
  BY <1>1, <1>2, <1>4, <1>5, <1>6, <1>7, RegistrySteps

(* No operation of the registry or of a session makes it hold an attachment *)
(* that no attach has made.                                                 *)
LEMMA KnownStep == IndInv /\ [Next]_vars => Known'
<1> SUFFICES ASSUME IndInv, [Next]_vars PROVE Known'
  OBVIOUS
<1>0. TypeOK /\ Known /\ SessionType
  BY TypeParts DEF IndInv
<1>1. ASSUME NEW k \in Keys, Registered(k)' PROVE Made(k)'
  <2>1. Made(k)
    BY <1>0, <1>1, RegisteredBy DEF Known, Holds, At
  <2> QED
    BY <2>1, MadeStays
<1>2. ASSUME NEW r \in Requests, NEW t \in Terminals, NEW mode \in Modes, NEW asked \in Asked,
             StartAttach(r, t, mode, asked)
      PROVE  Known'
  <2>1. PICK k \in Keys, a \in Attachment, x \in Request :
            /\ \A j \in Keys : Made(j)' <=> Made(j) \/ j = k
            /\ a.terminal \in Terminals
            /\ obj' = [obj EXCEPT ![k] = a] /\ UNCHANGED releasing
            /\ bound' = bound \cup {k}
            /\ x.key = k /\ req' = [req EXCEPT ![r] = x]
    BY <1>2, AttachEffect
  <2>2. \A j \in Keys : Made(j)' => obj'[j].terminal \in Terminals
    BY <1>0, <2>1 DEF TypeOK, Known
  <2>3. \A j \in bound' \cup releasing' : Made(j)'
    BY <1>0, <2>1 DEF TypeOK, Known
  <2>4. ASSUME NEW q \in Requests, Holds(q)' PROVE Made(req[q].key)'
    <3>1. CASE q = r
      BY <1>0, <2>1, <3>1 DEF TypeOK, Made
    <3>2. CASE q # r
      <4>1. req'[q] = req[q]
        BY <1>0, <2>1, <3>2 DEF TypeOK
      <4>2. Made(req[q].key)
        BY <1>0, <2>4, <4>1 DEF Holds, Known
      <4> QED
        BY <2>1, <4>1, <4>2 DEF Made
    <3> QED
      BY <3>1, <3>2
  <2> QED
    BY <1>1, <2>2, <2>3, <2>4 DEF Known
<1>3. ASSUME \A r \in Requests, t \in Terminals, mode \in Modes, asked \in Asked :
                ~StartAttach(r, t, mode, asked)
      PROVE  Known'
  <2>1. /\ nextChannel' = nextChannel
        /\ bound' \subseteq bound /\ releasing' \subseteq releasing \cup bound
        /\ \/ req' = req
           \/ \E r \in Requests, x \in Request : req' = [req EXCEPT ![r] = x] /\ Moves(r, x)
    BY <1>3, RequestEffect
  <2>2. \A j : Made(j)' <=> Made(j)
    BY <2>1 DEF Made
  <2>3. \A j \in Keys : Made(j)' => obj'[j].terminal \in Terminals
    BY <1>0, <1>3, <2>2, GoodStep DEF Good, SameKind, Known
  <2>4. \A j \in bound' \cup releasing' : Made(j)'
    BY <1>0, <2>1, <2>2 DEF Known
  <2>5. ASSUME NEW q \in Requests, Holds(q)' PROVE Made(req'[q].key)
    <3>1. CASE req'[q] = req[q]
      BY <1>0, <2>5, <3>1 DEF Holds, Known
    <3>2. CASE req'[q] # req[q]
      <4>1. Moves(q, req'[q])
        BY <1>0, <2>1, <3>2 DEF TypeOK
      <4> QED
        BY <1>0, <2>5, <4>1 DEF Moves, Holds, Known
    <3> QED
      BY <3>1, <3>2
  <2>6. \A q \in Requests : Holds(q)' => Made(req[q].key)'
    BY <2>1, <2>5 DEF Made
  <2> QED
    BY <1>1, <2>3, <2>4, <2>6 DEF Known
<1> QED
  BY <1>2, <1>3

(* No request writes a policy of, or takes the ownership for, an observer.  *)
LEMMA ObserversStep == IndInv /\ [Next]_vars => Observers'
<1> SUFFICES ASSUME IndInv, [Next]_vars PROVE Observers'
  OBVIOUS
<1> DEFINE Writes(q) == req[q].pc = "write" \/ (req[q].pc = "update" /\ req[q].take)
<1>0. TypeOK /\ Known /\ Observers /\ SessionType
  BY TypeParts DEF IndInv
<1>1. ASSUME \A k \in Keys : Faithful(k)',
             \A q \in Requests : Writes(q)' => obj'[req'[q].key].mode = "collaborator"
      PROVE  Observers'
  BY <1>1 DEF Observers, Faithful
<1>2. ASSUME NEW r \in Requests, NEW t \in Terminals, NEW mode \in Modes, NEW asked \in Asked,
             StartAttach(r, t, mode, asked)
      PROVE  Observers'
  <2>1. PICK k \in Keys, a \in Attachment, x \in Request :
            /\ ~Registered(k) /\ \A q \in Requests : Holds(q) => req[q].key # k
            /\ a.mode = "observer" => a.policy = "observer"
            /\ obj' = [obj EXCEPT ![k] = a] /\ UNCHANGED registry
            /\ x.pc = "register" /\ req' = [req EXCEPT ![r] = x]
    BY <1>2, AttachEffect
  <2>2. \A j \in Keys : Faithful(j)'
    BY <2>1, AttachGood
  <2>3. ASSUME NEW q \in Requests, Writes(q)' PROVE obj'[req'[q].key].mode = "collaborator"
    <3>1. q # r /\ req'[q] = req[q]
      BY <1>0, <2>1, <2>3 DEF TypeOK
    <3>2. Holds(q) /\ obj[req[q].key].mode = "collaborator" /\ req[q].key \in Keys
      BY <1>0, <2>3, <3>1 DEF Observers, Holds, Known, Made
    <3> QED
      BY <1>0, <2>1, <3>1, <3>2 DEF TypeOK
  <2> HIDE DEF Writes
  <2> QED
    BY <1>1, <2>2, <2>3
<1>3. ASSUME \A r \in Requests, t \in Terminals, mode \in Modes, asked \in Asked :
                ~StartAttach(r, t, mode, asked)
      PROVE  Observers'
  <2>1. \/ req' = req
        \/ \E r \in Requests, x \in Request : req' = [req EXCEPT ![r] = x] /\ Moves(r, x)
    BY <1>3, RequestEffect
  <2>2. Good
    BY <1>3, GoodStep
  <2>3. ASSUME NEW q \in Requests, Writes(q)' PROVE obj'[req'[q].key].mode = "collaborator"
    <3>1. req'[q].key \in Keys
      BY <2>3, KnownStep DEF Known, Holds, Made
    <3>2. CASE req'[q] = req[q]
      BY <1>0, <2>2, <2>3, <3>1, <3>2 DEF Observers, Good, SameKind
    <3>3. CASE req'[q] # req[q]
      <4>1. Moves(q, req'[q])
        BY <1>0, <2>1, <3>3 DEF TypeOK
      <4>2. obj[req'[q].key].mode = "collaborator"
        BY <1>0, <2>3, <4>1 DEF Moves, Observers, At
      <4> QED
        BY <2>2, <3>1, <4>2 DEF Good, SameKind
    <3> QED
      BY <3>2, <3>3
  <2> HIDE DEF Writes
  <2> QED
    BY <1>1, <2>2, <2>3 DEF Good
<1> QED
  BY <1>2, <1>3
(* While an attach is between the making of its attachment and its          *)
(* registration, no other request finds it.                                 *)
LEMMA PrivateStep == IndInv /\ [Next]_vars => Private'
<1> SUFFICES ASSUME IndInv, [Next]_vars, NEW q \in Requests, req'[q].pc = "register"
             PROVE  /\ byKey'[req'[q].key] = "absent"
                    /\ \A p \in Requests \ {q} : Holds(p)' => req'[p].key # req'[q].key
  BY DEF Private, At
<1>0. TypeOK /\ Known /\ Private
  BY DEF IndInv
<1>1. ASSUME NEW r \in Requests, NEW t \in Terminals, NEW mode \in Modes, NEW asked \in Asked,
             StartAttach(r, t, mode, asked)
      PROVE  /\ byKey'[req'[q].key] = "absent"
             /\ \A p \in Requests \ {q} : Holds(p)' => req'[p].key # req'[q].key
  <2>1. PICK k \in Keys, x \in Request :
            /\ ~Registered(k) /\ \A p \in Requests : Holds(p) => req[p].key # k
            /\ UNCHANGED registry
            /\ x.key = k /\ req' = [req EXCEPT ![r] = x]
    BY <1>1, AttachEffect
  <2>2. byKey' = byKey /\ req'[r] = x /\ \A p \in Requests \ {r} : req'[p] = req[p]
    BY <1>0, <2>1 DEF TypeOK, registry
  <2>3. CASE q = r
    BY <2>1, <2>2, <2>3 DEF Registered, Holds
  <2>4. CASE q # r
    BY <1>0, <2>1, <2>2, <2>4 DEF Private, At, Holds
  <2> QED
    BY <2>3, <2>4
<1>2. ASSUME \A r \in Requests, t \in Terminals, mode \in Modes, asked \in Asked :
                ~StartAttach(r, t, mode, asked)
      PROVE  /\ byKey'[req'[q].key] = "absent"
             /\ \A p \in Requests \ {q} : Holds(p)' => req'[p].key # req'[q].key
  <2>1. ASSUME NEW p \in Requests, req'[p] # req[p] PROVE Moves(p, req'[p])
    <3>1. \/ req' = req
          \/ \E r \in Requests, x \in Request : req' = [req EXCEPT ![r] = x] /\ Moves(r, x)
      BY <1>2, RequestEffect
    <3> QED
      BY <1>0, <2>1, <3>1 DEF TypeOK
  <2>2. req'[q] = req[q] /\ At(q, "register") /\ Holds(q)
    BY <2>1 DEF Moves, At, Holds
  <2>3. ASSUME NEW p \in Requests \ {q}, Holds(p)' PROVE req'[p].key # req'[q].key
    <3>1. CASE req'[p] = req[p]
      BY <1>0, <2>2, <2>3, <3>1 DEF Private, Holds
    <3>2. CASE req'[p] # req[p]
      BY <1>0, <2>1, <2>2, <2>3, <3>2 DEF Private, Moves, Holds, attachmentForToken
    <3> QED
      BY <3>1, <3>2
  <2>4. PICK k \in Keys : k = req[q].key
    BY <2>2, HeldKey
  <2>5. ~Registered(k)
    BY <1>0, <2>2, <2>4 DEF Private, Registered
  <2>6. ~Registered(k)'
    <3> SUFFICES ASSUME Registered(k)' PROVE FALSE
      OBVIOUS
    <3>1. PICK r \in Requests : /\ At(r, "register") \/ At(r, "update")
                                /\ req[r].key = k /\ req'[r].pc # "register"
      BY <2>5, RegisteredBy
    <3>2. r # q /\ Holds(r)
      BY <2>2, <3>1 DEF At, Holds
    <3> QED
      BY <1>0, <2>2, <2>4, <3>1, <3>2 DEF Private
  <2> QED
    BY <2>2, <2>3, <2>4, <2>6 DEF Registered
<1> QED
  BY <1>1, <1>2

(* The invariant is inductive.                                              *)
LEMMA IndInvInit == Init => IndInv
<1> SUFFICES ASSUME Init PROVE IndInv
  OBVIOUS
<1>1. TypeOK
  BY InitType
<1>2. \A r \in Requests : ~Holds(r) /\ ~At(r, "register") /\ req[r].pc = "idle"
  BY DEF Init, Holds, At, Idle
<1>3. \A k \in Keys : ~Made(k)
  <2> SUFFICES ASSUME NEW k \in Keys PROVE ~(k[2] <= nextChannel[k[1]])
    BY DEF Made
  <2>1. nextChannel[k[1]] = 0 /\ k[2] \in 1 .. MaxChannel
    BY KeyParts DEF Init
  <2> QED
    BY <2>1, RegistryAssumption
<1>4. Known
  BY <1>2, <1>3 DEF Known, Init, Registered
<1>5. Observers
  BY <1>2 DEF Observers, Init, Blank
<1>6. Private
  BY <1>2 DEF Private
<1>7. OwnerIsCollaborator /\ OwnerEpochCurrent
  BY DEF OwnerIsCollaborator, OwnerEpochCurrent, Init
<1> QED
  BY <1>1, <1>4, <1>5, <1>6, <1>7 DEF IndInv

(* Every step keeps the owner of a terminal a collaborator of it with the   *)
(* current epoch.                                                           *)
LEMMA OwnersStep == IndInv /\ [Next]_vars => (OwnerIsCollaborator /\ OwnerEpochCurrent)'
<1> SUFFICES ASSUME IndInv, [Next]_vars PROVE \A t \in Terminals : OwnerOK(t)'
  BY DEF OwnerOK, OwnerIsCollaborator, OwnerEpochCurrent
<1>1. CASE \E r \in Requests, t \in Terminals, mode \in Modes, asked \in Asked :
              StartAttach(r, t, mode, asked)
  BY <1>1, AttachEffect, AttachGood
<1>2. CASE ~\E r \in Requests, t \in Terminals, mode \in Modes, asked \in Asked :
              StartAttach(r, t, mode, asked)
  BY <1>2, GoodStep DEF Good
<1> QED
  BY <1>1, <1>2

(* Every step of a session, of a request and of the registry preserves the  *)
(* inductive invariant.                                                     *)
LEMMA IndInvStep == IndInv /\ [Next]_vars => IndInv'
<1> SUFFICES ASSUME IndInv, [Next]_vars PROVE IndInv'
  OBVIOUS
<1>1. RegistryType' /\ SessionType'
  BY RegistryTypeStep, SessionTypeStep
<1>2. TypeOK'
  BY <1>1 DEF TypeOK, RegistryType, SessionType, Request
<1> QED
  BY <1>2, KnownStep, ObserversStep, PrivateStep, OwnersStep DEF IndInv

(* The inductive invariant holds in every state of every behaviour of the   *)
(* registry and its sessions.                                               *)
THEOREM Invariance == Spec => []IndInv
  BY IndInvInit, IndInvStep, PTL DEF Spec

(* Every variable keeps its type: in particular the registry's maps are      *)
(* defined for every terminal and attachment a step looks up in them.       *)
THEOREM TypeCorrect == Spec => []TypeOK
<1>1. IndInv => TypeOK
  BY DEF IndInv
<1> QED
  BY <1>1, Invariance, PTL

(* The owner controlLocked reports is a registered attachment of that        *)
(* terminal and no observer, whatever requests race.                       *)
THEOREM OwnersAreCollaborators == Spec => []OwnerIsCollaborator
<1>1. IndInv => OwnerIsCollaborator
  BY DEF IndInv
<1> QED
  BY <1>1, Invariance, PTL

(* The epoch clients are told is the one update compares theirs with.        *)
THEOREM OwnerEpochsAreCurrent == Spec => []OwnerEpochCurrent
<1>1. IndInv => OwnerEpochCurrent
  BY DEF IndInv
<1> QED
  BY <1>1, Invariance, PTL
-----------------------------------------------------------------------------
(***************************************************************************)
(* How the ownership moves.                                                *)
(***************************************************************************)

(* Attachment k gives up terminal t: it leaves the registry or its policy    *)
(* says so, and the terminal is left without an owner only if nobody waits. *)
StepsDown(t, k) ==
    /\ owners[t] = k
    /\ byKey'[k] = "absent" \/ obj[k].policy # "owner"
    /\ owners'[t] = NoKey => Waiting(t, k) = {}

(* Attachment k asks for the ownership: it registers, or its resize takes.   *)
AsksFor(k) ==
    \E r \in Requests : /\ req[r].key = k
                        /\ req'[r] # req[r]
                        /\ (req[r].pc = "register" \/ req[r].take)

(* Whatever moves the ownership of a terminal advances its epoch, and is     *)
(* one of the two.                                                         *)
LEMMA OwnerMoves ==
  ASSUME IndInv, [Next]_vars, NEW t \in Terminals, owners'[t] # owners[t]
  PROVE  /\ epochs'[t] = nextEpoch + 1
         /\ \/ owners'[t] \in Keys /\ AsksFor(owners'[t])
            \/ \E k \in Keys : StepsDown(t, k)
<1>0. TypeOK
  BY DEF IndInv
<1>1. ASSUME NEW u \in Terminals, AdvanceEpoch(u) PROVE epochs'[u] = nextEpoch + 1
  BY <1>0, <1>1 DEF AdvanceEpoch, TypeOK
<1>2. ASSUME NEW u \in Terminals, NEW k \in Keys, NEW objs, NEW copies,
             ReplaceOwner(u, k, objs, copies)
      PROVE  /\ u = t /\ epochs'[t] = nextEpoch + 1
             /\ owners'[t] = NoKey => Waiting(t, k) = {}
  <2>1. /\ epochs' = [epochs EXCEPT ![u] = nextEpoch + 1]
        /\ \/ Waiting(u, k) = {} /\ owners' = [owners EXCEPT ![u] = NoKey]
           \/ \E n \in Waiting(u, k) : owners' = [owners EXCEPT ![u] = n]
    BY <1>2, ReplaceEffect
  <2>2. u = t
    BY <1>0, <2>1 DEF TypeOK
  <2>3. \A n \in Waiting(u, k) : n # NoKey
    BY KeyParts DEF Waiting
  <2> QED
    BY <1>0, <2>1, <2>2, <2>3 DEF TypeOK
<1>3. ASSUME NEW k \in Keys, Made(k), Unregister(k)
      PROVE  epochs'[t] = nextEpoch + 1 /\ StepsDown(t, k)
  <2>1. PICK u \in Terminals : u = obj[k].terminal
    BY <1>3 DEF IndInv, Known
  <2>2. owners[u] = k /\ ReplaceOwner(u, k, obj, Forget(k))
    BY <1>3, <2>1 DEF Unregister
  <2>3. byKey'[k] = "absent"
    BY <1>0, <1>3 DEF Unregister, TypeOK
  <2> QED
    BY <1>2, <2>2, <2>3 DEF StepsDown
<1>4. ASSUME NEW r \in Requests, Register(r)
      PROVE  epochs'[t] = nextEpoch + 1 /\ owners'[t] \in Keys /\ AsksFor(owners'[t])
  <2>1. PICK k \in Keys, u \in Terminals : k = req[r].key /\ u = obj[k].terminal
    BY <1>4, HeldKey DEF Register, At, Holds
  <2>2. /\ AdvanceEpoch(u) /\ owners' = [owners EXCEPT ![u] = k]
        /\ req[r].pc = "register" /\ req' = [req EXCEPT ![r] = Idle]
    BY <1>4, <2>1 DEF Register, At, Return
  <2>3. u = t /\ owners'[t] = k /\ req'[r] = Idle
    BY <1>0, <2>2 DEF TypeOK
  <2>4. req'[r] # req[r]
    BY <2>2, <2>3 DEF Idle
  <2> QED
    BY <1>1, <2>1, <2>2, <2>3, <2>4 DEF AsksFor
<1>5. ASSUME NEW r \in Requests, Update(r)
      PROVE  /\ epochs'[t] = nextEpoch + 1
             /\ \/ owners'[t] \in Keys /\ AsksFor(owners'[t])
                \/ \E k \in Keys : StepsDown(t, k)
  <2>1. PICK k \in Keys, u \in Terminals : k = req[r].key /\ u = obj[k].terminal
    BY <1>5, HeldKey DEF Update, At, Holds
  <2>2. \/ /\ CanTakeOwner(r, u) /\ AdvanceEpoch(u)
           /\ owners' = [owners EXCEPT ![u] = k]
        \/ /\ owners[u] = k /\ Refreshed(k).policy # "owner"
           /\ ReplaceOwner(u, k, [obj EXCEPT ![k] = Refreshed(k)], Forget(k))
    BY <1>5, <2>1, UpdateEffect
  <2>3. CASE /\ CanTakeOwner(r, u) /\ AdvanceEpoch(u)
             /\ owners' = [owners EXCEPT ![u] = k]
    <3>1. u = t /\ owners'[t] = k
      BY <1>0, <2>3 DEF TypeOK
    <3> DEFINE x == [Idle EXCEPT !.pc = "apply", !.key = req[r].key]
    <3>2. /\ req' = [req EXCEPT ![r] = x] \/ req' = [req EXCEPT ![r] = Idle]
          /\ req[r].pc = "update"
      BY <1>5 DEF Update, Return, At
    <3>3. x.pc = "apply" /\ Idle.pc = "idle"
      BY DEF Idle
    <3> HIDE DEF x
    <3>4. req'[r] # req[r]
      BY <1>0, <3>2, <3>3 DEF TypeOK
    <3> QED
      BY <1>1, <2>1, <2>3, <3>1, <3>4 DEF AsksFor, CanTakeOwner
  <2>4. CASE /\ owners[u] = k /\ Refreshed(k).policy # "owner"
             /\ ReplaceOwner(u, k, [obj EXCEPT ![k] = Refreshed(k)], Forget(k))
    <3>1. obj[k].policy # "owner"
      BY <1>0, <2>4, RefreshedType
    <3> QED
      BY <1>2, <2>4, <3>1 DEF StepsDown
  <2> QED
    BY <2>2, <2>3, <2>4
<1>6. ASSUME NEW r \in Requests, FinishDetach(r)
      PROVE  epochs'[t] = nextEpoch + 1 /\ \E k \in Keys : StepsDown(t, k)
  BY <1>3, <1>6, HeldKey DEF FinishDetach, At, Holds
<1>7. ASSUME NEW k \in releasing, ReleaseOne(k)
      PROVE  epochs'[t] = nextEpoch + 1 /\ StepsDown(t, k) /\ k \in Keys
  BY <1>0, <1>3, <1>7 DEF ReleaseOne, IndInv, TypeOK, Known
<1>8. ASSUME NEW r \in Requests,
             \/ \E u \in Terminals, mode \in Modes, asked \in Asked : StartAttach(r, u, mode, asked)
             \/ \E j \in bound, asked \in Asked, take \in BOOLEAN, expected \in 0 .. nextEpoch :
                   StartResize(r, j, asked, take, expected)
             \/ \E p \in Policies : FinishWrite(r, p)
             \/ SetSizeLock(r)
      PROVE  owners' = owners
  BY <1>8 DEF StartAttach, StartResize, FinishWrite, SetSizeLock, registry
<1>9. ASSUME UNCHANGED <<obj, registry>> PROVE owners' = owners
  BY <1>9 DEF registry
<1> QED
  BY <1>4, <1>5, <1>6, <1>7, <1>8, <1>9, RegistrySteps

(* The owner of a terminal changes only with an epoch above every epoch     *)
(* handed out before: an epoch a client has seen names one owner.          *)
THEOREM EpochsFence == Spec => EpochFence
<1>1. IndInv /\ [Next]_vars
         => [\A t \in Terminals : owners'[t] # owners[t] => epochs'[t] > nextEpoch]_vars
  <2> SUFFICES ASSUME IndInv, [Next]_vars, NEW t \in Terminals, owners'[t] # owners[t]
               PROVE  epochs'[t] > nextEpoch
    OBVIOUS
  <2>1. epochs'[t] = nextEpoch + 1 /\ nextEpoch \in Nat
    BY OwnerMoves, RegistryAssumption DEF IndInv, TypeOK
  <2> QED
    BY <2>1
<1> QED
  BY <1>1, Invariance, PTL DEF Spec, EpochFence

(* A terminal loses its owner without a successor only when nobody else      *)
(* registered for it may resize.                                           *)
THEOREM OwnerLossIsPromoted == Spec => OwnerLossPromotes
<1>1. IndInv /\ [Next]_vars
         => [\A t \in Terminals :
               owners[t] # NoKey /\ owners'[t] = NoKey =>
                 \A k \in Keys : Registered(k) /\ Entry(k).terminal = t /\ k # owners[t]
                                   => Entry(k).policy = "observer"]_vars
  <2> SUFFICES ASSUME IndInv, [Next]_vars, NEW t \in Terminals,
                      owners[t] # NoKey, owners'[t] = NoKey
               PROVE  \A k \in Keys : Registered(k) /\ Entry(k).terminal = t /\ k # owners[t]
                                        => Entry(k).policy = "observer"
    OBVIOUS
  <2>1. Waiting(t, owners[t]) = {}
    BY OwnerMoves, KeyParts DEF StepsDown
  <2> QED
    BY <2>1 DEF Waiting
<1> QED
  BY <1>1, Invariance, PTL DEF Spec, OwnerLossPromotes

(* An attachment becomes the owner in another's place only by registering,   *)
(* by asking, or because the other left or stepped down.                   *)
THEOREM OwnershipTakenOnlyWhenAsked == Spec => TakenOnlyWhenAsked
<1>1. IndInv /\ [Next]_vars
         => [\A t \in Terminals, k \in Keys :
               owners[t] # NoKey /\ owners'[t] = k /\ owners[t] # k =>
                 \/ \E r \in Requests : /\ req[r].key = k
                                          /\ req'[r] # req[r]
                                          /\ (req[r].pc = "register" \/ req[r].take)
                 \/ byKey'[owners[t]] = "absent"
                 \/ obj[owners[t]].policy # "owner"]_vars
  <2> SUFFICES ASSUME IndInv, [Next]_vars, NEW t \in Terminals, NEW k \in Keys,
                      owners[t] # NoKey, owners'[t] = k, owners[t] # k
               PROVE  \/ AsksFor(k)
                      \/ byKey'[owners[t]] = "absent"
                      \/ obj[owners[t]].policy # "owner"
    BY DEF AsksFor
  <2> QED
    BY OwnerMoves DEF StepsDown
<1> QED
  BY <1>1, Invariance, PTL DEF Spec, TakenOnlyWhenAsked
=============================================================================
