--------------------------- MODULE HistoryPipeline ---------------------------
(***************************************************************************)
(* pool/core/terminal.go: the history of one terminal across restarts.     *)
(* The terminal owns one HistoryDeltaQueue at a time, the error that its   *)
(* failures leave behind, and a sticky error for the losses that it could  *)
(* not mark in the store.  Restart replaces a queue that has failed.       *)
(*                                                                         *)
(* The variables of HistoryDeltaQueue are those of the current queue.      *)
(* Once replaced, a queue has failed for good; all that is left of it is   *)
(* its worker, which may still have its failure to report.  Restart and    *)
(* Close of a terminal exclude each other (server.lifecycleMu).            *)
(***************************************************************************)
EXTENDS HistoryDeltaQueue

CONSTANT MaxRestarts   \* bound: restarts of the terminal

ASSUME PipelineAssumption == MaxRestarts \in Nat

VARIABLES
  outputError,   \* historyOutputError is set
  sticky,        \* historyStickyError is set
  restart,       \* pc of Restart
  restarts,      \* number of restarts begun
  oldWorker,     \* the worker of the replaced queue
  total,         \* historyStatus.DroppedBytes: what replaced queues dropped
  unmarked       \* history: a replaced queue lost deltas, and the store has
                 \* no gap for them at its end

errorVars == <<outputError, sticky>>
restartVars == <<restart, restarts, oldWorker, total>>
pipelineVars == <<vars, errorVars, restartVars, unmarked>>

PInit ==
  /\ Init
  /\ outputError = FALSE /\ sticky = FALSE
  /\ restart = "idle" /\ restarts = 0
  /\ oldWorker = [pc |-> "end", result |-> "none"]
  /\ total = 0 /\ unmarked = FALSE

\* recordHistoryDeltaFailure: a terminalHistoryDeltaFailure with a gapErr, which
\* only the apply callback returns, is sticky.
RecordFailure(w) ==
  /\ outputError' = TRUE
  /\ sticky' = (sticky \/ w.result = "apply")
-----------------------------------------------------------------------------
(* The current queue.                                                      *)

Quiet == UNCHANGED <<errorVars, restartVars, unmarked>>

\* Its worker is started once the replaced queue has been waited for.
PStartRun == restart # "waitOld" /\ StartRun /\ Quiet

\* A gap boundary in the store marks the losses before it as well.
PApply(result) ==
  /\ Apply(result)
  /\ unmarked' = (unmarked /\ result # "recovered")
  /\ UNCHANGED <<errorVars, restartVars>>
PPersistGap(result) ==
  /\ PersistGap(result)
  /\ unmarked' = (unmarked /\ result # "ok")
  /\ UNCHANGED <<errorVars, restartVars>>

PReportFailure ==
  /\ ReportFailure
  /\ RecordFailure(worker)
  /\ UNCHANGED <<restartVars, unmarked>>

\* The steps of its worker that concern nobody else
QueueWork ==
  \/ Sleep \/ Stop \/ TakeGap \/ TakeNode
  \/ CompleteNode \/ FailNode \/ CompleteGap \/ FailGap

\* Enqueue by applyLiveOutput and Resize; closeHistoryDeltaQueue by Close
QueueStep ==
  /\ \/ \E bytes \in Sizes : EnqueueNode(bytes) \/ EnqueueGap(bytes)
     \/ QueueWork
     \/ ResumeFlush \/ Wait \/ (restart = "idle" /\ Seal) \/ (closer = "close" /\ Close)
  /\ Quiet

\* markExited: SealLifecycleTail fails, recordHistoryUnavailable.
SealTailFails ==
  /\ restart \notin {"flush", "flushing"} /\ ~sticky
  /\ outputError' = TRUE
  /\ UNCHANGED <<vars, sticky, restartVars, unmarked>>
-----------------------------------------------------------------------------
(* Restart.                                                                *)

\* flushHistoryOutput looks at the error first.
BeginRestart ==
  /\ restart = "idle" /\ restarts < MaxRestarts /\ closer = "idle"
  /\ restarts' = restarts + 1
  /\ restart' = IF outputError THEN "reset" ELSE "flush"
  /\ UNCHANGED <<vars, errorVars, oldWorker, total, unmarked>>

\* The live consumer is flushed first; if that fails, or the live output has
\* failed before, the queue is not flushed.
RestartFlush ==
  /\ restart = "flush"
  /\ \/ StartFlush /\ restart' = "flushing"
     \/ restart' = "reset" /\ UNCHANGED vars
  /\ UNCHANGED <<errorVars, restarts, oldWorker, total, unmarked>>

\* After a flush without error the tail of the screen is sealed, unless sticky.
RestartSealTail(err) ==
  /\ restart = "flushing" /\ flush.pc = "end"
  /\ err => flush.result = "ok" /\ ~sticky
  /\ outputError' = (outputError \/ err)
  /\ restart' = "reset"
  /\ UNCHANGED <<vars, sticky, restarts, oldWorker, total, unmarked>>

\* Faulty variant of ResetError: every error is cleared, the sticky one too.
ResetEveryError ==
  /\ restart = "reset"
  /\ outputError' = FALSE
  /\ restart' = "recover"
  /\ UNCHANGED <<vars, sticky, restarts, oldWorker, total, unmarked>>

\* historyOutputError = historyStickyError
ResetError ==
  /\ restart = "reset"
  /\ outputError' = sticky
  /\ restart' = "recover"
  /\ UNCHANGED <<vars, sticky, restarts, oldWorker, total, unmarked>>

\* recoverHistoryDeltaQueue, up to the construction of the next queue: the
\* sticky error, then the status of the old queue, each under its own lock
LookAtSticky ==
  /\ restart = "recover"
  /\ restart' = IF sticky THEN "idle" ELSE "status"
  /\ UNCHANGED <<vars, errorVars, restarts, oldWorker, total, unmarked>>

StatusClosed == closed \/ (sealed /\ queue = {} /\ inFlight = 0)
LookAtQueue ==
  /\ restart = "status"
  /\ restart' = IF unavailable \/ StatusClosed THEN "swap" ELSE "idle"
  /\ UNCHANGED <<vars, errorVars, restarts, oldWorker, total, unmarked>>

\* newTerminalHistoryDeltaQueue
NewQueue ==
  /\ nextSeq' = 0 /\ completedSeq' = 0
  /\ queue' = {} /\ inFlight' = 0 /\ size' = [s \in Seqs |-> 0] /\ resident' = 0
  /\ gap' = {} /\ gapThrough' = 0 /\ gapFly' = {} /\ gapFlyThrough' = 0
  /\ dropped' = 0 /\ gapCount' = 0 /\ epoch' = 0
  /\ started' = FALSE /\ sealed' = FALSE /\ closed' = FALSE /\ done' = FALSE
  /\ unavailable' = FALSE
  /\ worker' = [pc |-> "start", result |-> "none"]
  /\ flush' = [pc |-> "idle", target |-> 0, result |-> "none"]
  /\ closer' = "idle"
  /\ applied' = {} /\ gapped' = {}

\* It looks at the sticky error again and installs the next queue.
InstallQueue ==
  /\ restart = "swap"
  /\ IF sticky
     THEN /\ restart' = "idle"
          /\ UNCHANGED <<vars, errorVars, oldWorker, total, unmarked>>
     ELSE /\ restart' = "waitOld"
          /\ outputError' = FALSE
          /\ oldWorker' = worker
          /\ total' = total + dropped
          /\ unmarked' = (unmarked \/ applied \cup gapped # 1..nextSeq)
          /\ NewQueue
          /\ UNCHANGED sticky
  /\ UNCHANGED restarts

\* old.Close(), old.Wait(): the new worker is started after that.
WaitOld ==
  /\ restart = "waitOld" /\ oldWorker.pc = "end"
  /\ restart' = "idle"
  /\ UNCHANGED <<vars, errorVars, restarts, oldWorker, total, unmarked>>

\* Meanwhile the old worker reports its failure.
OldReports ==
  /\ oldWorker.pc = "failed"
  /\ RecordFailure(oldWorker)
  /\ oldWorker' = [oldWorker EXCEPT !.pc = "end"]
  /\ UNCHANGED <<vars, restart, restarts, total, unmarked>>

RestartStep ==
  \/ RestartFlush \/ (\E err \in BOOLEAN : RestartSealTail(err)) \/ ResetError
  \/ LookAtSticky \/ LookAtQueue \/ InstallQueue \/ WaitOld \/ OldReports

PWorker ==
  \/ PStartRun \/ PReportFailure
  \/ \E result \in {"ok", "recovered", "failed"} : PApply(result) \/ PPersistGap(result)

PNext == PWorker \/ QueueStep \/ RestartStep \/ BeginRestart \/ SealTailFails

PSpec == PInit /\ [][PNext]_pipelineVars

\* As in FairSpec; Restart runs to its end as well.
PFairSpec ==
  /\ PSpec
  /\ WF_pipelineVars(PWorker \/ (QueueWork /\ Quiet))
  /\ WF_pipelineVars(ResumeFlush /\ Quiet) /\ WF_pipelineVars(RestartStep)
-----------------------------------------------------------------------------
(* Properties.                                                             *)

\* Whatever Restart does, a sticky error is what every reader of the history is
\* told: recoverHistoryDeltaQueue, the failure callbacks of both workers and the
\* reset of the error never leave it hidden, not even for a moment.
StickyIsTold == sticky => outputError

\* A restart comes to its end.
RestartEnds == restart # "idle" ~> restart = "idle"

\* "Queued deltas collapse into an ordered gap that the worker persists before
\* later transactions": no delta enters the store behind a loss that has no gap
\* there.
GapBeforeLater == unmarked => applied = {}
=============================================================================
