# A TLA+ model of anytty

anytty keeps terminals alive in a *pool* process and lets clients attach to
them. The pool's core logic is in `src/pool/core` (terminals, output, history,
events) and `src/pool/provider` (client sessions, attachments, resize
ownership). A web client (`src/clients/ui`, `src/clients/web`) reaches it through
a Go engine (`src/access/engine/binding`) on the other side of a WebSocket. This
directory models where bytes, deltas, screens, handles and ownership cross
goroutines, sockets and callbacks, checks the models with TLC on small instances
and proves their safety properties with TLAPS for all instances.

    tlc -config OutputConsumers.cfg MCOutputBuffer      one of the runs below
    tlapm OutputBufferProofs.tla                        the proofs of one component

## 1. The system

```
 PTY ──read──> watchOutput (pump) ──Write──> output buffer ──batch/gap──> live consumer (parser)
                                        │   (one per running terminal)         │ Enqueue(delta)
                       resident budget ─┘   shared by all terminals            v
                                                                  history delta queue ──apply/gap──> history store
                                                                        ^ replaced by Restart
 client ──request──> session (goroutine per request) ──> attachment registry ──CanResize──> ResizeTerminal

 emulator screen ──wake──> long poll + baseline cache ══answer══> canonical screen ──snapshot──> React effect ──> xterm
 (revision n)              (pool, one per session)                (protocol session of the web client)   <──completed──┘

 web client call ──frame──> bridge ──> engine: operation, session handles ──> host
        <──ACCEPTED(handle)── bridge   <──event queue── goroutine of the operation
```

| component | state | operations | what makes it correct |
| --- | --- | --- | --- |
| output buffer (`terminal_output_buffer.go`) | linked list of chunks with one pending bit per consumer; per consumer a cursor, the batch or gap in flight, the pending gap, counters, failure | Write, run/next/complete, Flush, Seal, Close, Wait | each consumer gets the stream in order and is told of every loss in its place; memory bounds are hard; whoever waits is woken |
| resident budget (same file) | resident bytes, the registered buffers, waiters | reserve, release, wake, unregister, close | exact accounting, across the evictions that one terminal makes in another's buffer |
| history delta queue (`terminal_history_delta_queue.go`) | list of deltas, delta or gap in flight, pending gap, sequence numbers, seal/close/failure | Enqueue, Run, Flush, Seal, Close, Wait | Enqueue never waits, memory is bounded, a loss is persisted as a gap before what follows it, Flush is a fence |
| history pipeline (`terminal.go`) | the current queue, the output error, the sticky error | Restart, recoverHistoryDeltaQueue, recordHistoryDeltaFailure, markExited | a loss that could not be marked stays visible; counters survive the swap; Restart ends |
| attachments (`provider/attachments.go`, `attach_dispatch.go`, `streams.go`, `server.go`) | session objects, registry entries, owner, epoch and size lock per terminal | attach, resize, resize-lock, detach, end of session | one owner, fenced by epochs; a leaving owner is replaced; detach releases |
| terminal registry and lifecycle (`core/server.go`, `registry.go`, `terminal.go`) | terminal infos, processes | create, remove, restart, exit, metadata | info in the registry follows the terminal's |
| event broker, live long polls (`events.go`, `server.go`) | subscriber channels, coalesced pending events | publish, subscribe, one-shot wake | no lost wake-up |
| live screen view of the web client (`protoTerminalProtocolSession.ts`, `liveScreenCache.ts`, `useTerminalSession.tsx`, `Terminal.tsx`) | one request, one canonical screen, undrawn damage, the revision published and the one being rendered; the snapshot in React; what xterm has and has not parsed | poll, merge, publish, submit, complete, pause, resume, history view, recovery | what is drawn is a screen the pool had; the latest one is drawn in the end |
| binding (`protoBindingClient.ts`, `WebSocketBindingBackend.ts`, `binding/loopback/server.go`, `binding/engine.go`) | pending, early, cancelled and abandoned operations; frames on the socket; operation and session handles | open, execute, cancel, close, release, detach | every call settles; every handle is released once; nothing survives its renderer |
| raw PTY streams (`raw_pty_stream.go`) | bounded queue per subscriber | publish, receive, close | overflow and exit reach the subscriber once |
| live baseline cache (`provider/session_ops.go`) | confirmed and offered screens, pins, byte budgets | acquire, offer, expire, release | budgets exact, a pinned baseline stays |
| line history store (`core/history/linehist`) | segments, index | append, gap boundary, seal, prune | |
| access, remote authentication, transports, clients, protocol, emulator | | | outside the pool's core; see `PROJECT.json` |

Hard behaviours: four kinds of goroutines on one buffer under two locks that are
never held together; callbacks that run without a lock and may fail; restarts
that swap a queue while its worker is failing; concurrent requests of one
session on one attachment object, one of whose fields is written without a
lock; a client that hides, scrolls away or reconnects while a poll, a React
effect and a write to xterm are under way; an operation whose event overtakes
the reply that names it. `PROJECT.json` lists the hazards with their lines.

## 2. The modules

**GapStream** is the promise that a producer makes to a consumer in this
system: a numbered stream whose elements are ingested or announced as lost, in
order, none skipped, none twice, and nothing after a failure.

**OutputBuffer** models a set of buffers on one budget with all goroutines that
use them: the pump, one runner per consumer, the callers of Flush and the one
that drains or aborts. Every critical section of `buffer.mu` or `budget.mu` is
one action; what the code does after an unlock (`budget.release`, `budget.wake`,
`budget.unregister`) is an action of its own, so that everything may happen in
between. `cond.Wait` is the pc `sleep` or `budgetSleep`, which only a Broadcast
ends. The `...Locked` helpers are functions from a buffer record to a buffer
record. The list of nodes is the set of their sequence numbers, the pending bits
are one set per consumer, and the byte count of a gap is the set of the chunks
it counts. `watchOutput` passes `historyEnabled = false` (terminal.go:731), so
that production buffers have the live consumer only; `HistoryEnabled = TRUE`
exercises the code's second consumer, as its tests do. **MCOutputBuffer** gives
`Overflow` its values.

**HistoryDeltaQueue** models one queue, its worker with the apply and gap
callbacks of `runHistoryDeltaQueue`, one caller of Flush (which may call again)
and one goroutine that runs Seal, Wait, Close or only Close. A delta is its
sequence number and has a resident size; `droppedBytes` counts deltas instead of
source bytes. `applied` and `gapped` are history variables: what the callbacks
have put into the store. The view gate (lines 52-78) is left out.

**HistoryPipeline** extends it with the terminal around the queue: the error,
the sticky error and Restart, step by step at its lock boundaries. After a swap
the variables are those of the new queue; of the old one its worker is left,
which may still have its failure to report. A Restart and the Close of a
terminal exclude each other (`lifecycleMu`). Whether the live output can be
flushed, which Restart tries before it flushes the queue, is a free choice.

**AttachmentRegistry** models the sessions' requests on the registry. An
attachment is one object of its session; the registry's entry is a *copy* of it
after `register` and *that object* after `update`, which `byKey` keeps apart.
`dispatchResize` writes the object's policy without the registry's lock
(attach_dispatch.go:72), a data race: the write is two actions, between which the
value is `"torn"`, and when the registry has written in between, either value or
a torn one may be left. A client can name an attachment only once its attach has
been answered. Surface and view names, the view count, projections and raw
stream frames are left out: no decision of the registry depends on them.

**LiveScreenPool** models the pool's part of live delivery for one terminal and
one session: output, resize and restart that raise the revision and publish a
wake (unless the program is inside a synchronized update), the subscription of
a long poll and the check that follows it, the delta between two screens as
copied and fresh rows, and the session's cache with an offered and a confirmed
baseline. `log` remembers the screen of every revision, so that properties can
compare what a client shows with what the pool had. Resize and restart are one
action, since both lay the screen out anew in a new generation; output of a
process that has exited or was replaced, which is applied but not published
(terminal.go:1192-1197), is left out. `stale` is the slot of a
poll the client has aborted and the pool still runs.

**LiveScreenView** extends it with the client. An action is one JavaScript
callback with all it calls before it returns or awaits: the promise of a poll,
`visibilitychange`, a React effect, xterm's parse callback, the user's scrolling,
the recovery of the channel. Setting React state and running its effect are two
actions. A write to xterm carries the revision its callback reports. Left out:
cursor, modes and alternate screen; re-creation of the xterm instance;
`flushLiveOutput` (it only delays an answer); the exit of a process.
`markSyncLost` of the session is not modelled because no caller reaches it.

**BindingBridge** models one generation of the WebSocket: the client's
bookkeeping of calls, both directions of the socket in order, the bridge that
handles one request at a time while a second goroutine pumps events, and the
engine's handle registry with a goroutine per operation. A handle is named by
the call it was allocated for. An engine command behaves as an execute without a
session. `sessions` is the client's map, `alive` the sessions in it that neither
their user nor an execute has closed; only SessionClosed takes one out of the
map. A result has an outcome: a session, nothing of the client's concern, an
error, or a resource that the caller owns (an execute of `Owning`; a transfer, a
history snapshot or a subscription). An aborted execute that brings a resource is
followed by the client's own command that gives it back, which has its
identifier in `Cleanups`. `closed` tells why the binding has closed: the engine
has refused a release or close (`"refused"`), a clean-up has failed
(`"cleanup"`), or the socket, the page or a full table (`"gone"`). A `Close` of
the host's session that fails ends the session all the same; its error is
answered to the client. Left out: resource streams, endpoint lifecycle events,
the Android backend, reconnection. Merged into one step: the replay of an early
event (a microtask after `waitOperation`) with the acceptance; the registration
of a session and `markOperationDone` (engine.go:745-766), and the revocation of
all handles and the clean-up behind it (engine.go:180-183), each of which the
code does in two lock sections. Between these a host's session may be live a
little longer than in the model.

**OutputConsumerProofs** (the locked helpers, one buffer and one consumer at a
time) and **OutputBufferProofs** (the goroutines and the budget),
**HistoryDeltaQueueProofs**, **HistoryPipelineProofs**,
**AttachmentRegistryProofs**, **LiveScreenProofs** and **BindingBridgeProofs**
hold the proofs, see section 4.

The definitions named *Faulty variant of X* next to X are plausible mistakes in
the code that X models. Each property is violated when the definition it is
paired with in `PROJECT.json` is replaced by its faulty variant; no
specification uses them.

## 3. The runs

| run | instance | shows |
| --- | --- | --- |
| `output_consumers` | one drop buffer of 2 bytes, both consumers, callbacks fail at any time, 4 chunks | `StreamInOrder`, `DiagnosticsExact`, `FailureReportsAll`, and that the buffer implements GapStream for both consumers |
| `output_stop` | one block buffer, payloads of 1 or 2 bytes, one chunk each, Flush with cancellation, drain or abort, failures | `FlushFence`, `DrainKeepsAccepted`; `StopEnds`, `FlushReturns` |
| `output_budget` | a block buffer and a drop buffer on a budget of one chunk, failures | `BoundedMemory`, `BudgetExact`; `WriteEnds` |
| `history_queue` | capacity 3, deltas of 1, 2 and 4, three deltas | all properties of the queue, its liveness and the refinement |
| `history_restart` | capacity 2, two deltas per queue, two restarts | `StickyIsTold`, `RestartEnds` |
| `history_unmarked` | capacity 1 | violation, see 5 |
| `ownership` | two sessions, one request each, 3 epochs | `EpochFence`, `OwnerLossPromotes`, `TakenOnlyWhenAsked` |
| `shared_attachment` | one session with two concurrent requests, a terminal that is locked, removed, created again, 4 epochs | `OwnerIsCollaborator`, `OwnerEpochCurrent` |
| `detach_race` | two requests of one session | violation, see 5 |
| `live_delivery` | two rows, two revisions, two interruptions (hiding, history view or recovery) | `CanonicalIsPool`: merging deltas gives the pool's screen. `DamageIsComplete`: once its writes are parsed, the terminal differs from the canonical screen only in rows that are still to be drawn, although only damaged rows are written. `LatestIsDrawnOrDeduplicated`: the view catches up once it stays in front, except in the state of 5(c) |
| `live_wake` | one row, four revisions, no interruption | `LatestIsDrawn`: no wake is lost between screen, subscription and check. `BaselineCharged`: the baseline budget is charged for what the cache holds |
| `binding` | one open, two executes, one of them owning, a clean-up command, three handles, one early event | `CallsSettle`, `HandlesReclaimed`; `NoRequestRefused`: the engine refuses no release of the client and no close of a session it has retired, which would close the whole binding; `NoSessionOutlivesRenderer` |

**Bounds.** The buffers' interesting configurations have a batch or gap in
flight, a pending gap and a queued chunk at the same time; they need three
chunks, and a fourth lets the stream go on after the gap. A budget problem needs
two buffers and more chunks than the budget holds. The queue needs a delta that
fits, one that fits after dropping the list and one that never fits, with one in
flight: three deltas. Two restarts let a replaced queue fail and its successor
be replaced. One attachment per session with two sessions gives every pair of
owner, waiter and taker; two requests on one attachment give every pair of
racing handlers; `MaxEpoch` bounds the number of changes of owner, three of
which suffice to pass the ownership there, back and on. A stale row needs two
rows, of which a delta changes, copies or scrolls one; losing a frame and
resuming needs one interruption, and a second one meets the state the first has
left. A lost wake needs a burst: four revisions cover output before the poll,
between subscription and check, during the wait, and after the answer. The
channel of a subscription holds 64 events (core/server.go:146); `WakeBuffer` is
the largest number of wakes four revisions can queue, so that the channel is not
full: with a full channel wakes are dropped and `LatestIsDrawn` fails for
`WakeBuffer = 2` (a stale wake in the channel hides the newest one). One open
and two executes give a session that is closed with operations under way, and
calls that are aborted before, between and after acceptance and event;
`MaxEarly = 1` makes the overflow of early events happen, and three handles make
the engine's table full. The execute that is not `Owning` is the one that runs
beside the clean-up. With one open the table of retired sessions never
overflows; that branch, the interplay of two sessions, and in OutputBuffer a
payload of several chunks, a Close while a writer reserves and the eviction from
another terminal are covered by the theorems only. The `binding` run is the
largest: 640,000 states, some three minutes. Deadlock checking is off because
buffers, queues and sessions legitimately end, and because the bounds stop the
producers.

**Fairness.** Weak fairness per goroutine: the Go scheduler runs every runnable
goroutine, and the ingest, gap and apply callbacks return (they parse or write a
file). Nothing is assumed of the environment: PTY reads, restarts, Flush calls,
cancellations, stops and failures may happen or not. `Close` of the queue is fair
only after its `Wait`, where the code goes on unconditionally. Lock acquisition
is folded into the actions; `sync.Mutex` is starvation-free. In the client the
event loop runs every callback that is due: answers, effects, xterm's parser,
frames of the socket. In the binding an operation ends, since an open has
`openTimeout` and an execute is answered by the host or fails with its transport
(`runExecute` has no deadline of its own: a host that keeps the transport open
and never answers is excluded); each side of the socket
notices that the other has gone. Nothing is assumed of callers, aborts, the
user's scrolling, the visibility of the document, recoveries, expiry of
baselines and the death of sessions.

## 4. The proofs

Every safety invariant and every action property that a passing run checks is
also a theorem, for every value of the constants that the named assumption of
its module allows. None of the invariants is inductive by itself; each proof
module defines an `IndInv` that is, shows that `Init` implies it and every action
keeps it (one lemma or one step per action), and derives the properties from it.

| module | assumption | theorems |
| --- | --- | --- |
| OutputBufferProofs | `BufferAssumption`: finitely many buffers, positive capacity, budget and chunk size, a budget that holds one chunk (types.go:11-14) | `TypeCorrect`, `StreamCorrect`, `DiagnosticsCorrect`, `FlushCorrect`, `DrainCorrect`, `MemoryBounded`, `BudgetCorrect`, `FailureReported`, `Refinement` |
| HistoryDeltaQueueProofs | `QueueAssumption`: positive capacity, sizes of at least 1 and at most `MaxSize` | `TypeCorrect`, `OrderCorrect`, `BoundCorrect`, `FenceCorrect`, `DrainCorrect`, `DiagnosticsCorrect`, `Refinement` |
| HistoryPipelineProofs | the same | `StickyCorrect`, `EveryQueueCorrect` |
| AttachmentRegistryProofs | `RegistryAssumption`: sessions are numbered, channels and epochs are bounded | `TypeCorrect`, `OwnersAreCollaborators`, `OwnerEpochsAreCurrent`, `EpochsFence`, `OwnerLossIsPromoted`, `OwnershipTakenOnlyWhenAsked` |
| LiveScreenProofs | `PoolAssumption`: at least one row, one revision and room for one wake | `TypeCorrect`, `CanonicalCorrect`, `DamageCorrect`, `ChargeCorrect` |
| BindingBridgeProofs | `BridgeAssumption`: finitely many calls; an execute needs an open to have a session to run in; as many clean-up identifiers as owning executes | `TypeCorrect`, `RequestsAccepted`, `SessionsEndWithRenderer` |

**Output buffer.** What a consumer has settled, what is in flight, the pending gap
and the queue are adjacent intervals (`Spans`, `Awaits`), with the counters that
belong to them (`Counts`): a drop moves the border between gap and queue, taking
work moves the border before it, and a completion moves `completedSeq` to the end
of what was in flight. OutputConsumerProofs shows this of each `...Locked` helper,
also for an eviction that another terminal's pump makes while the consumer is
working. The goroutines add what the lock boundaries leave open: `WriterFit`,
that the room a pump has seen or reserved is still there when it appends, because
nobody else adds to its buffer; `RunnerFit`, that what is in flight is in the
runner's hands and that a runner ends only behind a failure, a close, or the last
chunk of a sealed buffer; `StopperFit`, that Close comes after Wait; `PolicyFit`,
that with block policy only Close makes a gap; `Legal`, which bytes a goroutine
still has to release. `BudgetExact` is an equation between sums over buffers and
goroutines; `TotalChange` says what one change does to such a sum, and `StepFits`
reduces every action to the buffer, the place and the money of the one goroutine
that moves, the others at most being woken. `StreamStep`, what a step does to the
streams, gives `FailureReported` and the refinement.

**History queue.** `IndInv` adds: `Shape`, which pc of the worker goes with which
work in flight; `Places`, that completed, in flight, gap and list meet in
ascending order; `Stored`, that a store that has not failed holds exactly
`1..StoredUpTo`, one element ahead of `completedSeq` between a callback and its
completion; `Life`, what seal, close, done and the worker's end imply for each
other; `Resident`, the byte count as a measure of list and delta in flight. The
fence, the drain and the refinement follow from order and `Stored`.
`DiagnosticsCorrect` needs `Books`: the counters, and that between the gap
callback and its completion the gap in flight is already in the store.

**History pipeline.** A step of the terminal is a step of its current queue,
leaves the queue alone, or installs a new one in its initial state, so that all
that is proved of one queue holds of every queue that Restart ever installs.

**Attachments.** `Known`: every key that a request, a session or the registry
holds has been made. `Observers`: the policy of an observer is observer in the
object and in the registry's copy, and nothing that writes a policy works for an
observer; this is what survives the unlocked write of dispatchResize, since the
torn value never reaches an observer. `Private`: an attachment that is being
registered is nobody else's. `EpochFence` and the two other action properties
follow from these.

**Live screen.** `Answered`: an answer is the screen of its revision, or what
makes it of the screen the client has observed. `Published` and `Drawn`: what
React holds, what xterm has not parsed yet and the damage that is left lead
together to the canonical screen, row by row.

**Binding.** `Started`, `OneResult`, `OneClosing` and `ResultFirst` say where on
the queues the frames of one call can be: the result of an operation is in one
place only, in order before the end of its session, and the requests the client
sends upon them keep that order. So a release or close always meets a handle
that is still there. The proof covers every clean-up command as one more
operation, and every way in which the binding closes.

Only model-checked: all liveness properties (`StopEnds`, `FlushReturns`,
`WriteEnds`, `CloseEnds`, `RestartEnds`, `LatestIsDrawn`,
`LatestIsDrawnOrDeduplicated`, `CallsSettle`, `HandlesReclaimed`), since fairness
and ENABLED are out of the prover's reach. `GapBeforeLater` and `DetachReleases`
do not hold of the code (section 5).

## 5. What the code does that its documents exclude

With a run that shows it:

1. **Deltas can follow an unmarked loss** (`history_unmarked`). A failed *gap*
   callback does not set the sticky error (terminal.go:980), and a swap can
   precede the report of a failed worker; Restart then installs a new queue over
   a store with no gap at its end, against terminal_history_delta_queue.go:20-22
   and the intention of terminal_test.go:1445-1500.
2. **A detached attachment can stay registered** (`detach_race`). `update` inserts
   what `unregister` has removed (attachments.go:112). The end of a session has
   the same race, since attachments are released before the requests are waited
   for (provider/server.go:214-215).

Reachable in the models, without a run of its own:

- (a) **A writer can be left asleep by Close.** `reserve` looks at its buffer
  before it takes `budget.mu` (terminal_output_buffer.go:139-157); a Close that
  falls in between has done all its broadcasts when the writer starts to wait.
  `docs/TERMINAL_DELIVERY.md:26` requires Close to wake the waiters. The writer
  goes on when any other terminal releases budget, which is why `WriteEnds`
  holds with fair consumers.
- (b) **A former owner can size the PTY.** The permission is decided under the
  registry's lock and used after it (attach_dispatch.go:80-84);
  `docs/ARCHITECTURE.zh-CN.md:179` promises a single writer.
- (c) **A view can stop following its terminal.** A frame of revision r is
  published; the document is hidden before its effect runs, which withdraws the
  publication (protoTerminalProtocolSession.ts:387-394); the effect then submits
  r, which the session ignores; when the document is shown again r is published
  once more, and the component takes it for submitted (Terminal.tsx:3354). It is
  never submitted, so that no further poll starts until the next interruption.
  A recovery of the channel while the screen stands still leads to the same
  state. `docs/TERMINAL_DELIVERY.md:125` says that the foreground resumes with
  the last applied revision. `LatestIsDrawnOrDeduplicated` holds with exactly
  this exception; adding `LatestIsDrawn` to `LiveDelivery.cfg` gives the trace.
- (d) **A call aborted before its acceptance leaks its handle.** The backend
  sends the cancel (WebSocketBindingBackend.ts:209) and nobody releases the
  operation, nor closes the session an open has made; its event stays among the
  early ones, 4096 of which close the binding. engine.go:520 says that the
  caller must release, and protoBindingClient.test.ts:37 "releases every
  cancelled operation after its terminal event". The first conjunct of
  `HandlesReclaimed` excepts these calls.
- (e) **A session can be registered after its end.** When the result of an open
  and the sessionClosed both precede the acceptance, the client releases the
  session first and registers it then (protoBindingClient.ts:271, 484).
- (f) **A clean-up that fails closes everything.** When an aborted execute ends
  with an error other than CANCELLED, when the command that gives its resource
  back fails, is not confirmed or takes more than five seconds, or when its
  session's user has closed the session meanwhile (protoBindingClient.ts:603,
  628-630, 797), the client closes the binding with all its sessions (640). The
  same happens when the host's Close of a retired session fails (648). This is
  intended: "fails closed when late cleanup ..." (protoBindingClient.test.ts:
  853-879). It is reachable by ordinary calls, for instance by aborting an
  execute whose session has just died, so `NoRequestRefused` speaks of requests
  that are refused, and not of every reason to close.
- (g) A recovery while a page of history is in view lets the next delta be drawn
  over that page; with a third interruption even a frame the session counts as
  rendered can be drawn that way, until the whole frame behind it is parsed.
  `DamageIsComplete` speaks of the state once the writes are parsed.

## 6. Plan

Done, in this order: OutputBuffer with GapStream; HistoryDeltaQueue and its
proofs; HistoryPipeline; AttachmentRegistry; LiveScreenPool and LiveScreenView;
BindingBridge; the proofs of all their safety properties.

Next:

1. Theorems that compose components: the stop of OutputBuffer with
   HistoryPipeline's restart, where `DrainKeepsAccepted` and `EveryQueueCorrect`
   meet.
2. RawPTYStream: bounded fan-out, overflow against exit.
3. TerminalLifecycle: restart, exit, kill, removal and metadata against the
   registry's copy of the terminal's info (`syncInfo`), composed with
   HistoryPipeline and the stop of OutputBuffer.
4. The scrollback pager of the web client, and resource streams on top of
   BindingBridge.
5. The line history store as a state machine of segments and gap boundaries, to
   put the pipeline's `unmarked` on the store's own terms.
6. Remote authentication's grant and proof handshake.

## 7. Not modelled, and why

- The emulator and renderer: sequential, data-heavy, no concurrency of their own.
- Protocol mapping, transports, file formats: conversion and I/O.
- Most of the TypeScript: the workspace, the application shell, the file manager,
  settings, keyboard and gesture handling and the layout part of `Terminal.tsx`
  are user interface, whose state is what the user chose and what a session
  reported; the protobuf messages are generated, and the animation runtimes under
  `docs/assets` are vendored. The client's concurrent logic, which is what a model
  checker can say something about, is in the binding, the protocol session and
  the snapshot path of `Terminal.tsx`, and these are modelled.
- The Flutter and command-line clients: user interface on the same engine.
