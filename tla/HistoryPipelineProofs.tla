------------------------ MODULE HistoryPipelineProofs ------------------------
(***************************************************************************)
(* Proofs about HistoryPipeline.  Restart installs a new queue in place of *)
(* one that has failed, at any point of the old one's life; a step of the  *)
(* terminal is therefore a step of its current queue, a step that leaves   *)
(* the queue alone, or the construction of the next one.  What             *)
(* HistoryDeltaQueueProofs shows of one queue then holds of every queue    *)
(* that the terminal ever has.                                             *)
(***************************************************************************)
EXTENDS HistoryPipeline, HistoryDeltaQueueProofs

\* What newTerminalHistoryDeltaQueue installs is a queue in its initial state.
LEMMA NewQueueIsInitial ==
  ASSUME NewQueue
  PROVE  Init'
BY DEF NewQueue, Init

\* The steps of the terminal, as its current queue sees them: recoverHistoryDeltaQueue
\* is the only one that is not a step of the queue itself.
LEMMA QueueSees ==
  ASSUME PNext
  PROVE  [Next]_vars \/ NewQueue
<1>1. CASE PWorker
  BY <1>1 DEF PWorker, PStartRun, PReportFailure, PApply, PPersistGap, Next, Worker
<1>2. CASE QueueStep
  BY <1>2 DEF QueueStep, QueueWork, Next, Worker
<1>3. CASE RestartStep
  BY <1>3 DEF RestartStep, RestartFlush, RestartSealTail, ResetError, LookAtSticky, LookAtQueue, InstallQueue,
     WaitOld, OldReports, Next
<1>4. CASE BeginRestart \/ SealTailFails
  BY <1>4 DEF BeginRestart, SealTailFails
<1> QED
  BY <1>1, <1>2, <1>3, <1>4 DEF PNext

\* A terminal starts with a new queue, and its error is clear.
LEMMA PipelineStarts ==
  ASSUME PInit
  PROVE  IndInv /\ Books /\ StickyIsTold
BY InitInv, InitBooks DEF PInit, StickyIsTold

\* Every queue of the terminal, the first and those that Restart installs, keeps
\* the inductive invariant and the books.
LEMMA PipelineQueue ==
  ASSUME IndInv, Books, [PNext]_pipelineVars
  PROVE  IndInv' /\ Books'
<1>1. CASE [Next]_vars
  BY <1>1, Inductive, BooksStep DEF IndInv
<1>2. CASE NewQueue
  <2>1. Init'
    BY <1>2, NewQueueIsInitial
  <2> QED
    BY <2>1, InitInv, InitBooks, PTL
<1>3. CASE UNCHANGED pipelineVars
  BY <1>1, <1>3 DEF pipelineVars
<1> QED
  BY <1>1, <1>2, <1>3, QueueSees

\* Restart resets the error to the sticky one and installs a queue only when
\* there is none; a failure that a worker reports sets both.
LEMMA StickyStep ==
  ASSUME StickyIsTold, [PNext]_pipelineVars
  PROVE  StickyIsTold'
<1>1. ASSUME UNCHANGED errorVars PROVE StickyIsTold'
  BY <1>1 DEF StickyIsTold, errorVars
<1>2. ASSUME NEW w, RecordFailure(w) PROVE StickyIsTold'
  BY <1>2 DEF StickyIsTold, RecordFailure
<1>3. CASE PWorker
  BY <1>1, <1>2, <1>3 DEF PWorker, PStartRun, PReportFailure, PApply, PPersistGap, Quiet
<1>4. CASE QueueStep \/ BeginRestart \/ UNCHANGED pipelineVars
  BY <1>1, <1>4 DEF QueueStep, Quiet, BeginRestart, pipelineVars
<1>5. CASE SealTailFails
  BY <1>5 DEF SealTailFails, StickyIsTold
<1>6. CASE RestartFlush \/ LookAtSticky \/ LookAtQueue \/ WaitOld
  BY <1>1, <1>6 DEF RestartFlush, LookAtSticky, LookAtQueue, WaitOld
<1>7. ASSUME NEW err \in BOOLEAN, RestartSealTail(err) PROVE StickyIsTold'
  BY <1>7 DEF RestartSealTail, StickyIsTold
<1>8. CASE ResetError
  BY <1>8 DEF ResetError, StickyIsTold
<1>9. CASE InstallQueue
  BY <1>1, <1>9 DEF InstallQueue, StickyIsTold
<1>10. CASE OldReports
  BY <1>2, <1>10 DEF OldReports
<1> QED
  BY <1>3, <1>4, <1>5, <1>6, <1>7, <1>8, <1>9, <1>10 DEF PNext, RestartStep

\* The invariant of every queue, and the sticky error, across all restarts.
THEOREM PipelineInvariance == PSpec => [](IndInv /\ Books /\ StickyIsTold)
<1>1. PInit => IndInv /\ Books /\ StickyIsTold
  BY PipelineStarts
<1>2. IndInv /\ Books /\ StickyIsTold /\ [PNext]_pipelineVars => (IndInv /\ Books /\ StickyIsTold)'
  BY PipelineQueue, StickyStep
<1> QED
  BY <1>1, <1>2, PTL DEF PSpec

\* A sticky error is what every reader of the history is told, at every moment
\* of every restart and whenever either worker reports its failure.
THEOREM StickyCorrect == PSpec => []StickyIsTold
BY PipelineInvariance, PTL

\* Across restarts, every queue of the terminal owes its deltas in order, stays
\* within its memory bound, and keeps exact diagnostics; a Flush that returns
\* nil is a fence for the queue it was called on.
THEOREM EveryQueueCorrect ==
  PSpec => [](OwedInOrder /\ ResidentBounded /\ FlushFence /\ SealDrains /\ DiagnosticsExact)
<1>1. IndInv /\ Books => OwedInOrder /\ ResidentBounded /\ FlushFence /\ SealDrains
                         /\ DiagnosticsExact
  BY BoundFollows, DrainFollows, BooksSay DEF IndInv, OrderInv
<1> QED
  BY <1>1, PipelineInvariance, PTL
=============================================================================
