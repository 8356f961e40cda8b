------------------------ MODULE RenderQueueResources ------------------------
(***************************************************************************)
(* What a job needs and what it costs, for any number of jobs, requests,   *)
(* attempts, faults and stops: its AuK input files, which nobody removes   *)
(* too early and somebody removes in the end, and the renders it starts,   *)
(* which RunPod bills.                                                     *)
(***************************************************************************)
EXTENDS RenderQueueProofs

\* No two rows share an input file, nor a row and an upload; a request that
\* deletes a row took the path from it; and a file is removed after a
\* submission only when the row left the queue.
InputPaths ==
  /\ \A i, j \in Jobs : inputOf[i] = inputOf[j] /\ inputOf[i] # NoPath => i = j
  /\ \A h \in Handlers : hpc[h] = "enqueue" =>
       hpath[h] \in inputs /\ \A j \in Jobs : inputOf[j] # hpath[h]
  /\ \A g, h \in Handlers : hpc[g] = "enqueue" /\ hpath[h] = hpath[g] => g = h
  /\ \A h \in Handlers : hpc[h] \in {"delete", "unlink"} =>
       status[hjob[h]] # "absent" /\ hpath[h] = inputOf[hjob[h]]
  /\ wpc = "cleanup" => status[wjob] \notin {"absent", "queued"}

\* Without a fault, a file that is there belongs to a row, to an upload, or to a
\* request that deleted its row and is about to remove it.
FilesOwned ==
  faults = 0 =>
    \A p \in inputs :
      \/ \E j \in Jobs : Present(j) /\ inputOf[j] = p
      \/ \E h \in Handlers : hpc[h] \in {"enqueue", "unlink"} /\ hpath[h] = p

Inputs == InputPaths /\ QueuedIsBuildable /\ FilesOwned

\* No step confuses the input files of two jobs.
LEMMA InputPathsStep ==
  ASSUME TypeOK, Cursors, InputPaths, [Next]_vars
  PROVE  InputPaths'
<1> USE QueueAssumption DEF TypeOK, Cursors, InputPaths, Working, Present, rowVars,
        diskVars, handlerVars, workerVars
<1>1. CASE Worker
  <2>1. CASE TickInFlight BY <2>1 DEF TickInFlight
  <2>2. CASE TickClaim BY <2>2 DEF TickClaim, ClaimQueued
  <2>3. CASE TickNext BY <2>3 DEF TickNext
  <2>4. CASE TickEnds BY <2>4 DEF TickEnds, EndTick
  <2>5. CASE SubmitUnbuildable BY <2>5 DEF SubmitUnbuildable, WorkerGoes
  <2>6. CASE SubmitTransient BY <2>6 DEF SubmitTransient, WorkerGoes, AfterTransient
  <2>7. CASE SubmitRejected BY <2>7 DEF SubmitRejected, WorkerGoes
  <2>8. ASSUME NEW r \in Renders, SubmitAccepted(r) PROVE InputPaths'
    BY <2>8 DEF SubmitAccepted, Accept
  <2>9. ASSUME NEW r \in Renders, SubmitAnswerLost(r) PROVE InputPaths'
    BY <2>9 DEF SubmitAnswerLost, Accept, WorkerGoes, AfterTransient
  <2>10. CASE RecordSubmitted
    BY <2>10 DEF RecordSubmitted, StoreSubmission, StatusForRunPod, MarkSubmitted,
        WorkerGoes, EndSubmit, Unclaimed
  <2>11. CASE RecordFails
    BY <2>11 DEF RecordFails, StoreSubmission, StatusForRunPod, MarkSubmitted,
        Unclaimed, Fault, Cancelled
  <2>12. CASE RemoveInputs BY <2>12 DEF RemoveInputs, EndSubmit
  <2>13. CASE Retry BY <2>13 DEF Retry, NoteAttempt, EndSubmit, Fault, Cancelled
  <2>14. CASE Fail BY <2>14 DEF Fail, MarkFailed, EndSubmit, Fault
  <2> QED BY <1>1, <2>1, <2>2, <2>3, <2>4, <2>5, <2>6, <2>7, <2>8, <2>9, <2>10, <2>11,
      <2>12, <2>13, <2>14 DEF Worker
<1>2. CASE Poller
  <2>1. CASE PollList BY <2>1 DEF PollList
  <2>2. CASE PollEnds BY <2>2 DEF PollEnds
  <2>3. ASSUME NEW j \in Jobs, PollNothing(j) PROVE InputPaths'
    BY <2>3 DEF PollNothing, Poll
  <2>4. ASSUME NEW j \in Jobs, PollRejected(j) PROVE InputPaths'
    BY <2>4 DEF PollRejected, Poll
  <2>5. ASSUME NEW j \in Jobs, PollRunning(j) PROVE InputPaths'
    BY <2>5 DEF PollRunning, Poll
  <2>6. ASSUME NEW j \in Jobs, PollFailed(j) PROVE InputPaths'
    BY <2>6 DEF PollFailed, Poll
  <2>7. ASSUME NEW j \in Jobs, PollCompleted(j) PROVE InputPaths'
    BY <2>7 DEF PollCompleted, Poll
  <2>8. CASE Progress BY <2>8 DEF Progress, UpdateStatus, EndPoll, Fault, Cancelled
  <2>9. CASE OutputUnusable BY <2>9 DEF OutputUnusable, PollerGoes
  <2>10. CASE WriteBegins BY <2>10 DEF WriteBegins, PollerGoes
  <2>11. CASE WriteEnds BY <2>11 DEF WriteEnds, PollerGoes, Fault
  <2>12. CASE Ready BY <2>12 DEF Ready, MarkReady, EndPoll, Fault, Cancelled
  <2>13. CASE PollerFail BY <2>13 DEF PollerFail, MarkPollerFailed, EndPoll, Fault
  <2> QED BY <1>2, <2>1, <2>2, <2>3, <2>4, <2>5, <2>6, <2>7, <2>8, <2>9, <2>10, <2>11,
      <2>12, <2>13 DEF Poller
<1>3. ASSUME NEW h \in Handlers, Handler(h) PROVE InputPaths'
  <2>1. ASSUME NEW j \in Jobs, NEW e \in Models, CreateJob(h, j, e) PROVE InputPaths'
    BY <2>1 DEF CreateJob, Insert
  <2>2. ASSUME NEW j \in Jobs, EnqueueAuK(h, j) PROVE InputPaths'
    BY <2>2 DEF EnqueueAuK, Insert, EndRequest
  <2>3. ASSUME NEW j \in Jobs, DeleteGet(h, j) PROVE InputPaths'
    BY <2>3 DEF DeleteGet
  <2>4. ASSUME NEW p \in Paths, SaveInput(h, p) PROVE InputPaths'
    BY <2>4 DEF SaveInput
  <2>5. CASE EnqueueRefused(h) BY <2>5 DEF EnqueueRefused, EndRequest
  <2>6. CASE DeleteRow(h) BY <2>6 DEF DeleteRow
  <2>7. CASE DeleteGivesUp(h) BY <2>7 DEF DeleteGivesUp, EndRequest
  <2>8. CASE Unlink(h) BY <2>8 DEF Unlink, EndRequest
  <2> QED BY <1>3, <2>1, <2>2, <2>3, <2>4, <2>5, <2>6, <2>7, <2>8 DEF Handler
<1>4. CASE RunPod
  BY <1>4 DEF RunPod, RenderStarts, RenderMoves, RenderCompletes, RenderFails
<1>5. CASE Process
  <2>1. CASE Crash BY <2>1 DEF Crash, Forget, EndTick, Runs
  <2>2. CASE Stop BY <2>2 DEF Stop
  <2>3. CASE Exit BY <2>3 DEF Exit
  <2>4. CASE Restart BY <2>4 DEF Restart
  <2> QED BY <1>5, <2>1, <2>2, <2>3, <2>4 DEF Process
<1>6. CASE UNCHANGED vars BY <1>6 DEF vars
<1> QED BY <1>1, <1>2, <1>3, <1>4, <1>5, <1>6 DEF Next

\* No step removes the inputs of a queued job.
LEMMA BuildableStep ==
  ASSUME TypeOK, Cursors, InputPaths, QueuedIsBuildable, [Next]_vars
  PROVE  QueuedIsBuildable'
<1> USE QueueAssumption DEF TypeOK, Cursors, InputPaths, QueuedIsBuildable, Buildable,
        Working, InFlightStatus, rowVars, diskVars
<1>1. CASE Worker
  <2>1. CASE TickInFlight BY <2>1 DEF TickInFlight
  <2>2. CASE TickClaim BY <2>2 DEF TickClaim, ClaimQueued
  <2>3. CASE TickNext BY <2>3 DEF TickNext
  <2>4. CASE TickEnds BY <2>4 DEF TickEnds, EndTick
  <2>5. CASE SubmitUnbuildable BY <2>5 DEF SubmitUnbuildable, WorkerGoes
  <2>6. CASE SubmitTransient BY <2>6 DEF SubmitTransient, WorkerGoes, AfterTransient
  <2>7. CASE SubmitRejected BY <2>7 DEF SubmitRejected, WorkerGoes
  <2>8. ASSUME NEW r \in Renders, SubmitAccepted(r) PROVE QueuedIsBuildable'
    BY <2>8 DEF SubmitAccepted, Accept
  <2>9. ASSUME NEW r \in Renders, SubmitAnswerLost(r) PROVE QueuedIsBuildable'
    BY <2>9 DEF SubmitAnswerLost, Accept, WorkerGoes, AfterTransient
  <2>10. CASE RecordSubmitted
    BY <2>10 DEF RecordSubmitted, StoreSubmission, StatusForRunPod, MarkSubmitted,
        WorkerGoes, EndSubmit, Unclaimed
  <2>11. CASE RecordFails
    BY <2>11 DEF RecordFails, StoreSubmission, StatusForRunPod, MarkSubmitted,
        Unclaimed, Fault, Cancelled
  <2>12. CASE RemoveInputs BY <2>12 DEF RemoveInputs, EndSubmit
  <2>13. CASE Retry BY <2>13 DEF Retry, NoteAttempt, EndSubmit, Fault, Cancelled
  <2>14. CASE Fail BY <2>14 DEF Fail, MarkFailed, EndSubmit, Fault
  <2> QED BY <1>1, <2>1, <2>2, <2>3, <2>4, <2>5, <2>6, <2>7, <2>8, <2>9, <2>10, <2>11,
      <2>12, <2>13, <2>14 DEF Worker
<1>2. CASE Poller
  <2>1. CASE PollList BY <2>1 DEF PollList
  <2>2. CASE PollEnds BY <2>2 DEF PollEnds
  <2>3. ASSUME NEW j \in Jobs, PollNothing(j) PROVE QueuedIsBuildable'
    BY <2>3 DEF PollNothing, Poll
  <2>4. ASSUME NEW j \in Jobs, PollRejected(j) PROVE QueuedIsBuildable'
    BY <2>4 DEF PollRejected, Poll
  <2>5. ASSUME NEW j \in Jobs, PollRunning(j) PROVE QueuedIsBuildable'
    BY <2>5 DEF PollRunning, Poll
  <2>6. ASSUME NEW j \in Jobs, PollFailed(j) PROVE QueuedIsBuildable'
    BY <2>6 DEF PollFailed, Poll
  <2>7. ASSUME NEW j \in Jobs, PollCompleted(j) PROVE QueuedIsBuildable'
    BY <2>7 DEF PollCompleted, Poll
  <2>8. CASE Progress BY <2>8 DEF Progress, UpdateStatus, EndPoll, Fault, Cancelled
  <2>9. CASE OutputUnusable BY <2>9 DEF OutputUnusable, PollerGoes
  <2>10. CASE WriteBegins BY <2>10 DEF WriteBegins, PollerGoes
  <2>11. CASE WriteEnds BY <2>11 DEF WriteEnds, PollerGoes, Fault
  <2>12. CASE Ready BY <2>12 DEF Ready, MarkReady, EndPoll, Fault, Cancelled
  <2>13. CASE PollerFail BY <2>13 DEF PollerFail, MarkPollerFailed, EndPoll, Fault
  <2> QED BY <1>2, <2>1, <2>2, <2>3, <2>4, <2>5, <2>6, <2>7, <2>8, <2>9, <2>10, <2>11,
      <2>12, <2>13 DEF Poller
<1>3. ASSUME NEW h \in Handlers, Handler(h) PROVE QueuedIsBuildable'
  <2>1. ASSUME NEW j \in Jobs, NEW e \in Models, CreateJob(h, j, e) PROVE
      QueuedIsBuildable'
    BY <2>1 DEF CreateJob, Insert
  <2>2. ASSUME NEW j \in Jobs, EnqueueAuK(h, j) PROVE QueuedIsBuildable'
    BY <2>2 DEF EnqueueAuK, Insert, EndRequest
  <2>3. ASSUME NEW j \in Jobs, DeleteGet(h, j) PROVE QueuedIsBuildable'
    BY <2>3 DEF DeleteGet
  <2>4. ASSUME NEW p \in Paths, SaveInput(h, p) PROVE QueuedIsBuildable'
    BY <2>4 DEF SaveInput
  <2>5. CASE EnqueueRefused(h) BY <2>5 DEF EnqueueRefused, EndRequest
  <2>6. CASE DeleteRow(h) BY <2>6 DEF DeleteRow
  <2>7. CASE DeleteGivesUp(h) BY <2>7 DEF DeleteGivesUp, EndRequest
  <2>8. CASE Unlink(h) BY <2>8 DEF Unlink, EndRequest
  <2> QED BY <1>3, <2>1, <2>2, <2>3, <2>4, <2>5, <2>6, <2>7, <2>8 DEF Handler
<1>4. CASE RunPod
  BY <1>4 DEF RunPod, RenderStarts, RenderMoves, RenderCompletes, RenderFails
<1>5. CASE Process
  BY <1>5 DEF Process, Crash, Forget, EndTick, Runs, Stop, Exit, Restart
<1>6. CASE UNCHANGED vars BY <1>6 DEF vars
<1> QED BY <1>1, <1>2, <1>3, <1>4, <1>5, <1>6 DEF Next

\* No step but a fault leaves an input file to nobody.
LEMMA FilesOwnedStep ==
  ASSUME TypeOK, Cursors, InputPaths, FilesOwned, [Next]_vars
  PROVE  FilesOwned'
<1> USE QueueAssumption DEF TypeOK, Cursors, InputPaths, FilesOwned, Present, Statuses,
        Working, InFlightStatus, rowVars, diskVars, handlerVars, procVars
<1>1. CASE Worker
  <2>1. CASE TickInFlight BY <2>1 DEF TickInFlight
  <2>2. CASE TickClaim BY <2>2 DEF TickClaim, ClaimQueued
  <2>3. CASE TickNext BY <2>3 DEF TickNext
  <2>4. CASE TickEnds BY <2>4 DEF TickEnds, EndTick
  <2>5. CASE SubmitUnbuildable BY <2>5 DEF SubmitUnbuildable, WorkerGoes
  <2>6. CASE SubmitTransient BY <2>6 DEF SubmitTransient, WorkerGoes, AfterTransient
  <2>7. CASE SubmitRejected BY <2>7 DEF SubmitRejected, WorkerGoes
  <2>8. ASSUME NEW r \in Renders, SubmitAccepted(r) PROVE FilesOwned'
    BY <2>8 DEF SubmitAccepted, Accept
  <2>9. ASSUME NEW r \in Renders, SubmitAnswerLost(r) PROVE FilesOwned'
    BY <2>9 DEF SubmitAnswerLost, Accept, WorkerGoes, AfterTransient
  <2>10. CASE RecordSubmitted
    BY <2>10 DEF RecordSubmitted, StoreSubmission, StatusForRunPod, MarkSubmitted,
        WorkerGoes, EndSubmit, Unclaimed
  <2>11. CASE RecordFails
    BY <2>11 DEF RecordFails, StoreSubmission, StatusForRunPod, MarkSubmitted,
        Unclaimed, Fault, Cancelled
  <2>12. CASE RemoveInputs BY <2>12 DEF RemoveInputs, EndSubmit
  <2>13. CASE Retry BY <2>13 DEF Retry, NoteAttempt, EndSubmit, Fault, Cancelled
  <2>14. CASE Fail BY <2>14 DEF Fail, MarkFailed, EndSubmit, Fault
  <2> QED BY <1>1, <2>1, <2>2, <2>3, <2>4, <2>5, <2>6, <2>7, <2>8, <2>9, <2>10, <2>11,
      <2>12, <2>13, <2>14 DEF Worker
<1>2. CASE Poller
  <2>1. CASE PollList BY <2>1 DEF PollList
  <2>2. CASE PollEnds BY <2>2 DEF PollEnds
  <2>3. ASSUME NEW j \in Jobs, PollNothing(j) PROVE FilesOwned'
    BY <2>3 DEF PollNothing, Poll
  <2>4. ASSUME NEW j \in Jobs, PollRejected(j) PROVE FilesOwned'
    BY <2>4 DEF PollRejected, Poll
  <2>5. ASSUME NEW j \in Jobs, PollRunning(j) PROVE FilesOwned'
    BY <2>5 DEF PollRunning, Poll
  <2>6. ASSUME NEW j \in Jobs, PollFailed(j) PROVE FilesOwned'
    BY <2>6 DEF PollFailed, Poll
  <2>7. ASSUME NEW j \in Jobs, PollCompleted(j) PROVE FilesOwned'
    BY <2>7 DEF PollCompleted, Poll
  <2>8. CASE Progress BY <2>8 DEF Progress, UpdateStatus, EndPoll, Fault, Cancelled
  <2>9. CASE OutputUnusable BY <2>9 DEF OutputUnusable, PollerGoes
  <2>10. CASE WriteBegins BY <2>10 DEF WriteBegins, PollerGoes
  <2>11. CASE WriteEnds BY <2>11 DEF WriteEnds, PollerGoes, Fault
  <2>12. CASE Ready BY <2>12 DEF Ready, MarkReady, EndPoll, Fault, Cancelled
  <2>13. CASE PollerFail BY <2>13 DEF PollerFail, MarkPollerFailed, EndPoll, Fault
  <2> QED BY <1>2, <2>1, <2>2, <2>3, <2>4, <2>5, <2>6, <2>7, <2>8, <2>9, <2>10, <2>11,
      <2>12, <2>13 DEF Poller
<1>3. ASSUME NEW h \in Handlers, Handler(h) PROVE FilesOwned'
  <2>1. ASSUME NEW j \in Jobs, NEW e \in Models, CreateJob(h, j, e) PROVE FilesOwned'
    BY <2>1 DEF CreateJob, Insert
  <2>2. ASSUME NEW j \in Jobs, EnqueueAuK(h, j) PROVE FilesOwned'
    BY <2>2 DEF EnqueueAuK, Insert, EndRequest
  <2>3. ASSUME NEW j \in Jobs, DeleteGet(h, j) PROVE FilesOwned'
    BY <2>3 DEF DeleteGet
  <2>4. ASSUME NEW p \in Paths, SaveInput(h, p) PROVE FilesOwned'
    BY <2>4 DEF SaveInput
  <2>5. CASE EnqueueRefused(h) BY <2>5 DEF EnqueueRefused, EndRequest
  <2>6. CASE DeleteRow(h) BY <2>6 DEF DeleteRow
  <2>7. CASE DeleteGivesUp(h) BY <2>7 DEF DeleteGivesUp, EndRequest
  <2>8. CASE Unlink(h) BY <2>8 DEF Unlink, EndRequest
  <2> QED BY <1>3, <2>1, <2>2, <2>3, <2>4, <2>5, <2>6, <2>7, <2>8 DEF Handler
<1>4. CASE RunPod
  BY <1>4 DEF RunPod, RenderStarts, RenderMoves, RenderCompletes, RenderFails
<1>5. CASE Process
  <2>1. CASE Crash BY <2>1 DEF Crash, Forget, EndTick, Runs
  <2>2. CASE Stop BY <2>2 DEF Stop
  <2>3. CASE Exit BY <2>3 DEF Exit
  <2>4. CASE Restart BY <2>4 DEF Restart
  <2> QED BY <1>5, <2>1, <2>2, <2>3, <2>4 DEF Process
<1>6. CASE UNCHANGED vars BY <1>6 DEF vars
<1> QED BY <1>1, <1>2, <1>3, <1>4, <1>5, <1>6 DEF Next

-----------------------------------------------------------------------------
(* Renders.                                                                 *)

Cost(j) == Cardinality(RendersOf(j))

\* The jobs of the current claim, and the one whose submission is under way.
Sending == {"submit", "record", "retry", "fail"}
Sent(j) == wjob = j /\ wpc \in {"record", "retry", "fail"}
Waits(j) == j \in wbatch \/ (wjob = j /\ wpc = "submit")
Claimed(j) == Waits(j) \/ Sent(j)

\* The attempts that may have gone uncounted.  A stop leaves at most one, that
\* of the submission it met: while this is under way the stop is still unused.
Uncounted ==
  faults + stops - (IF proc = "stopping" /\ wpc \in Sending THEN 1 ELSE 0)

\* What a job's renders are accounted to: its counted attempts, the submission
\* under way, and what may have gone uncounted; the whole of its attempts once it
\* left the queue.
Accounted(j) ==
  /\ Waits(j) => Cost(j) <= attempts[j] + Uncounted
  /\ Sent(j) => Cost(j) <= attempts[j] + 1 + Uncounted
  /\ ~Claimed(j) /\ status[j] = "queued" => Cost(j) <= attempts[j] + faults + stops
  /\ ~Claimed(j) /\ status[j] # "queued" => Cost(j) <= MaxAttempts + faults + stops

\* A row that may be sent has an attempt left, the worker's snapshot of its
\* attempts is right, and a row never enqueued has cost nothing.
Counted ==
  /\ \A j \in Jobs :
       /\ status[j] = "absent" => /\ attempts[j] = 0 /\ ~Claimed(j)
                                 /\ \A r \in Renders : renderOf[r] # j
       /\ status[j] = "queued" => runpodID[j] = NoRender
       /\ status[j] = "absent" => runpodID[j] = NoRender
       /\ status[j] = "queued" /\ ~Claimed(j) => attempts[j] < MaxAttempts
       /\ Claimed(j) => wseen[j] = attempts[j] /\ attempts[j] < MaxAttempts
       /\ j \in wbatch => ~(wjob = j /\ wpc \in Working)
  /\ wpc = "retry" => attempts[wjob] + 1 < MaxAttempts
  /\ wpc = "cleanup" => status[wjob] \notin {"absent", "queued"}
  /\ wpc \in {"idle", "claim", "next"} => wjob = 0
  /\ wpc = "idle" => wbatch = {}

\* No step loses count of a row's attempts.
LEMMA CountedStep ==
  ASSUME TypeOK, Cursors, Counted, [Next]_vars
  PROVE  Counted'
<1> USE QueueAssumption DEF TypeOK, Cursors, Counted, Working, Sending, Sent, Waits, Claimed,
        Present, InFlightStatus, Jobs, Statuses, rowVars, runpodVars, workerVars
<1>1. CASE Worker
  <2>1. CASE TickInFlight BY <2>1 DEF TickInFlight
  <2>2. CASE TickClaim BY <2>2 DEF TickClaim, ClaimQueued, Unclaimed
  <2>3. CASE TickNext BY <2>3 DEF TickNext
  <2>4. CASE TickEnds BY <2>4 DEF TickEnds, EndTick
  <2>5. CASE SubmitUnbuildable BY <2>5 DEF SubmitUnbuildable, WorkerGoes
  <2>6. CASE SubmitTransient BY <2>6 DEF SubmitTransient, WorkerGoes, AfterTransient
  <2>7. CASE SubmitRejected BY <2>7 DEF SubmitRejected, WorkerGoes
  <2>8. ASSUME NEW r \in Renders, SubmitAccepted(r) PROVE Counted'
    BY <2>8 DEF SubmitAccepted, Accept
  <2>9. ASSUME NEW r \in Renders, SubmitAnswerLost(r) PROVE Counted'
    BY <2>9, SMTT(30) DEF SubmitAnswerLost, Accept, WorkerGoes, AfterTransient
  <2>10. CASE RecordSubmitted
    BY <2>10, SMTT(30) DEF RecordSubmitted, StoreSubmission, StatusForRunPod, MarkSubmitted,
        WorkerGoes, EndSubmit, Unclaimed
  <2>11. CASE RecordFails
    BY <2>11, SMTT(30) DEF RecordFails, StoreSubmission, StatusForRunPod, MarkSubmitted,
        Unclaimed, Fault, Cancelled
  <2>12. CASE RemoveInputs BY <2>12 DEF RemoveInputs, EndSubmit
  <2>13. CASE Retry BY <2>13, SMTT(30) DEF Retry, NoteAttempt, EndSubmit, Fault, Cancelled
  <2>14. CASE Fail BY <2>14, SMTT(30) DEF Fail, MarkFailed, EndSubmit, Fault
  <2> QED BY <1>1, <2>1, <2>2, <2>3, <2>4, <2>5, <2>6, <2>7, <2>8, <2>9, <2>10, <2>11,
      <2>12, <2>13, <2>14 DEF Worker
<1>2. CASE Poller
  <2>1. CASE PollList BY <2>1 DEF PollList
  <2>2. CASE PollEnds BY <2>2 DEF PollEnds
  <2>3. ASSUME NEW j \in Jobs, PollNothing(j) PROVE Counted'
    BY <2>3, SMTT(30) DEF PollNothing, Poll
  <2>4. ASSUME NEW j \in Jobs, PollRejected(j) PROVE Counted'
    BY <2>4, SMTT(30) DEF PollRejected, Poll
  <2>5. ASSUME NEW j \in Jobs, PollRunning(j) PROVE Counted'
    BY <2>5, SMTT(30) DEF PollRunning, Poll
  <2>6. ASSUME NEW j \in Jobs, PollFailed(j) PROVE Counted'
    BY <2>6, SMTT(30) DEF PollFailed, Poll
  <2>7. ASSUME NEW j \in Jobs, PollCompleted(j) PROVE Counted'
    BY <2>7, SMTT(30) DEF PollCompleted, Poll
  <2>8. CASE Progress BY <2>8, SMTT(30) DEF Progress, UpdateStatus, EndPoll, Fault, Cancelled
  <2>9. CASE OutputUnusable BY <2>9 DEF OutputUnusable, PollerGoes
  <2>10. CASE WriteBegins BY <2>10 DEF WriteBegins, PollerGoes
  <2>11. CASE WriteEnds BY <2>11 DEF WriteEnds, PollerGoes, Fault
  <2>12. CASE Ready BY <2>12, SMTT(30) DEF Ready, MarkReady, EndPoll, Fault, Cancelled
  <2>13. CASE PollerFail BY <2>13, SMTT(30) DEF PollerFail, MarkPollerFailed, EndPoll, Fault
  <2> QED BY <1>2, <2>1, <2>2, <2>3, <2>4, <2>5, <2>6, <2>7, <2>8, <2>9, <2>10, <2>11,
      <2>12, <2>13 DEF Poller
<1>3. ASSUME NEW h \in Handlers, Handler(h) PROVE Counted'
  <2>1. ASSUME NEW j \in Jobs, NEW e \in Models, CreateJob(h, j, e) PROVE Counted'
    BY <2>1 DEF CreateJob, Insert
  <2>2. ASSUME NEW j \in Jobs, EnqueueAuK(h, j) PROVE Counted'
    BY <2>2 DEF EnqueueAuK, Insert, EndRequest
  <2>3. ASSUME NEW j \in Jobs, DeleteGet(h, j) PROVE Counted'
    BY <2>3 DEF DeleteGet
  <2>4. ASSUME NEW p \in Paths, SaveInput(h, p) PROVE Counted'
    BY <2>4 DEF SaveInput
  <2>5. CASE EnqueueRefused(h) BY <2>5 DEF EnqueueRefused, EndRequest
  <2>6. CASE DeleteRow(h) BY <2>6 DEF DeleteRow
  <2>7. CASE DeleteGivesUp(h) BY <2>7 DEF DeleteGivesUp, EndRequest
  <2>8. CASE Unlink(h) BY <2>8 DEF Unlink, EndRequest
  <2> QED BY <1>3, <2>1, <2>2, <2>3, <2>4, <2>5, <2>6, <2>7, <2>8 DEF Handler
<1>4. CASE RunPod
  <2>1. ASSUME NEW r \in Renders, RenderStarts(r) PROVE Counted'
    BY <2>1 DEF RenderStarts, RenderMoves
  <2>2. ASSUME NEW r \in Renders, RenderCompletes(r) PROVE Counted'
    BY <2>2 DEF RenderCompletes, RenderMoves
  <2>3. ASSUME NEW r \in Renders, RenderFails(r) PROVE Counted'
    BY <2>3 DEF RenderFails, RenderMoves
  <2> QED BY <1>4, <2>1, <2>2, <2>3 DEF RunPod
<1>5. CASE Process
  <2>1. CASE Crash BY <2>1 DEF Crash, Forget, EndTick, Runs
  <2>2. CASE Stop BY <2>2 DEF Stop
  <2>3. CASE Exit BY <2>3 DEF Exit
  <2>4. CASE Restart BY <2>4 DEF Restart
  <2> QED BY <1>5, <2>1, <2>2, <2>3, <2>4 DEF Process
<1>6. CASE UNCHANGED vars BY <1>6 DEF vars
<1> QED BY <1>1, <1>2, <1>3, <1>4, <1>5, <1>6 DEF Next

\* A job has started finitely many renders, within its account.
Bill ==
  \A j \in Jobs : IsFiniteSet(RendersOf(j)) /\ Cost(j) \in Nat /\ Accounted(j)

\* What RunPod accepts for one job adds one render to that job and none to others.
LEMMA AcceptCosts ==
  ASSUME TypeOK, Bill, NEW r \in Renders, NEW i \in Jobs, Accept(r, i), NEW j \in Jobs
  PROVE  /\ IsFiniteSet(RendersOf(j))' /\ Cost(j)' \in Nat
         /\ Cost(j)' <= Cost(j) + (IF j = i THEN 1 ELSE 0)
<1>1. IsFiniteSet(RendersOf(j)) /\ Cost(j) \in Nat
  BY DEF Bill
<1>2. CASE j = i
  <2>1. RendersOf(j)' = RendersOf(j) \cup {r}
    BY <1>2 DEF TypeOK, Accept, RendersOf
  <2>2. /\ IsFiniteSet(RendersOf(j) \cup {r})
        /\ \/ Cardinality(RendersOf(j) \cup {r}) = Cardinality(RendersOf(j))
           \/ Cardinality(RendersOf(j) \cup {r}) = Cardinality(RendersOf(j)) + 1
    BY <1>1, FS_AddElement
  <2> QED BY <1>1, <1>2, <2>1, <2>2 DEF Cost
<1>3. CASE j # i
  <2>1. RendersOf(j)' \subseteq RendersOf(j)
    BY <1>3 DEF TypeOK, Accept, RendersOf
  <2>2. /\ IsFiniteSet(RendersOf(j)')
        /\ Cardinality(RendersOf(j)') <= Cardinality(RendersOf(j))
    BY <1>1, <2>1, FS_Subset
  <2>3. Cardinality(RendersOf(j)') \in Nat BY <2>2, FS_CardinalityType
  <2> QED BY <1>1, <1>3, <2>2, <2>3 DEF Cost
<1> QED BY <1>2, <1>3

\* No step starts a render that is not accounted for.
LEMMA BillStep ==
  ASSUME TypeOK, Cursors, Counted, Bill, [Next]_vars
  PROVE  Bill'
<1>a. ASSUME UNCHANGED renderOf, NEW j \in Jobs
      PROVE  /\ IsFiniteSet(RendersOf(j))' /\ Cost(j)' \in Nat
             /\ Cost(j)' = Cost(j)
  <2>1. RendersOf(j)' = RendersOf(j) BY <1>a DEF RendersOf
  <2> QED BY <2>1 DEF Bill, Cost
<1>b. ASSUME NEW r \in Renders, Accept(r, wjob), wjob \in Jobs, NEW j \in Jobs
      PROVE  /\ IsFiniteSet(RendersOf(j))' /\ Cost(j)' \in Nat
             /\ Cost(j)' <= Cost(j) + (IF j = wjob THEN 1 ELSE 0)
  BY <1>b, AcceptCosts
<1>c. ASSUME NEW j \in Jobs, status[j] = "absent" PROVE Cost(j) = 0
  <2>1. RendersOf(j) = {} BY <1>c DEF Counted, RendersOf
  <2> QED BY <2>1, FS_EmptySet DEF Cost
<1> USE QueueAssumption, <1>a DEF TypeOK, Cursors, Counted, Bill, Accounted, Uncounted, Working,
        Sending, Sent, Waits, Claimed, Present, Statuses, InFlightStatus, rowVars,
        runpodVars, workerVars, procVars
<1>1. CASE Worker
  <2>1. CASE TickInFlight BY <2>1 DEF TickInFlight
  <2>2. CASE TickClaim BY <2>2 DEF TickClaim, ClaimQueued, Unclaimed
  <2>3. CASE TickNext BY <2>3 DEF TickNext
  <2>4. CASE TickEnds BY <2>4 DEF TickEnds, EndTick
  <2>5. CASE SubmitUnbuildable BY <2>5 DEF SubmitUnbuildable, WorkerGoes
  <2>6. CASE SubmitTransient BY <2>6 DEF SubmitTransient, WorkerGoes, AfterTransient
  <2>7. CASE SubmitRejected BY <2>7 DEF SubmitRejected, WorkerGoes
  <2>8. ASSUME NEW r \in Renders, SubmitAccepted(r) PROVE Bill'
    BY <2>8, <1>b DEF SubmitAccepted
  <2>9. ASSUME NEW r \in Renders, SubmitAnswerLost(r) PROVE Bill'
    BY <2>9, <1>b DEF SubmitAnswerLost, WorkerGoes, AfterTransient
  <2>10. CASE RecordSubmitted
    BY <2>10 DEF RecordSubmitted, StoreSubmission, StatusForRunPod, MarkSubmitted,
        WorkerGoes, EndSubmit, Unclaimed
  <2>11. CASE RecordFails
    BY <2>11 DEF RecordFails, StoreSubmission, StatusForRunPod, MarkSubmitted,
        Unclaimed, Fault, Cancelled
  <2>12. CASE RemoveInputs BY <2>12 DEF RemoveInputs, EndSubmit
  <2>13. CASE Retry BY <2>13 DEF Retry, NoteAttempt, EndSubmit, Fault, Cancelled
  <2>14. CASE Fail BY <2>14 DEF Fail, MarkFailed, EndSubmit, Fault
  <2> QED BY <1>1, <2>1, <2>2, <2>3, <2>4, <2>5, <2>6, <2>7, <2>8, <2>9, <2>10, <2>11,
      <2>12, <2>13, <2>14 DEF Worker
<1>2. CASE Poller
  <2>1. CASE PollList BY <2>1 DEF PollList
  <2>2. CASE PollEnds BY <2>2 DEF PollEnds
  <2>3. ASSUME NEW j \in Jobs, PollNothing(j) PROVE Bill'
    BY <2>3 DEF PollNothing, Poll
  <2>4. ASSUME NEW j \in Jobs, PollRejected(j) PROVE Bill'
    BY <2>4 DEF PollRejected, Poll
  <2>5. ASSUME NEW j \in Jobs, PollRunning(j) PROVE Bill'
    BY <2>5 DEF PollRunning, Poll
  <2>6. ASSUME NEW j \in Jobs, PollFailed(j) PROVE Bill'
    BY <2>6 DEF PollFailed, Poll
  <2>7. ASSUME NEW j \in Jobs, PollCompleted(j) PROVE Bill'
    BY <2>7 DEF PollCompleted, Poll
  <2>8. CASE Progress BY <2>8 DEF Progress, UpdateStatus, EndPoll, Fault, Cancelled
  <2>9. CASE OutputUnusable BY <2>9 DEF OutputUnusable, PollerGoes
  <2>10. CASE WriteBegins BY <2>10 DEF WriteBegins, PollerGoes
  <2>11. CASE WriteEnds BY <2>11 DEF WriteEnds, PollerGoes, Fault
  <2>12. CASE Ready BY <2>12 DEF Ready, MarkReady, EndPoll, Fault, Cancelled
  <2>13. CASE PollerFail BY <2>13 DEF PollerFail, MarkPollerFailed, EndPoll, Fault
  <2> QED BY <1>2, <2>1, <2>2, <2>3, <2>4, <2>5, <2>6, <2>7, <2>8, <2>9, <2>10, <2>11,
      <2>12, <2>13 DEF Poller
<1>3. ASSUME NEW h \in Handlers, Handler(h) PROVE Bill'
  <2>1. ASSUME NEW j \in Jobs, NEW e \in Models, CreateJob(h, j, e) PROVE Bill'
    BY <2>1, <1>c DEF CreateJob, Insert
  <2>2. ASSUME NEW j \in Jobs, EnqueueAuK(h, j) PROVE Bill'
    BY <2>2, <1>c DEF EnqueueAuK, Insert, EndRequest
  <2>3. ASSUME NEW j \in Jobs, DeleteGet(h, j) PROVE Bill'
    BY <2>3 DEF DeleteGet
  <2>4. ASSUME NEW p \in Paths, SaveInput(h, p) PROVE Bill'
    BY <2>4 DEF SaveInput
  <2>5. CASE EnqueueRefused(h) BY <2>5 DEF EnqueueRefused, EndRequest
  <2>6. CASE DeleteRow(h) BY <2>6 DEF DeleteRow
  <2>7. CASE DeleteGivesUp(h) BY <2>7 DEF DeleteGivesUp, EndRequest
  <2>8. CASE Unlink(h) BY <2>8 DEF Unlink, EndRequest
  <2> QED BY <1>3, <2>1, <2>2, <2>3, <2>4, <2>5, <2>6, <2>7, <2>8 DEF Handler
<1>4. CASE RunPod
  <2>1. ASSUME NEW r \in Renders, RenderStarts(r) PROVE Bill'
    BY <2>1 DEF RenderStarts, RenderMoves
  <2>2. ASSUME NEW r \in Renders, RenderCompletes(r) PROVE Bill'
    BY <2>2 DEF RenderCompletes, RenderMoves
  <2>3. ASSUME NEW r \in Renders, RenderFails(r) PROVE Bill'
    BY <2>3 DEF RenderFails, RenderMoves
  <2> QED BY <1>4, <2>1, <2>2, <2>3 DEF RunPod
<1>5. CASE Process
  <2>1. CASE Crash BY <2>1 DEF Crash, Forget, EndTick, Runs
  <2>2. CASE Stop BY <2>2 DEF Stop
  <2>3. CASE Exit BY <2>3 DEF Exit
  <2>4. CASE Restart BY <2>4 DEF Restart
  <2> QED BY <1>5, <2>1, <2>2, <2>3, <2>4 DEF Process
<1>6. CASE UNCHANGED vars BY <1>6 DEF vars
<1> QED BY <1>1, <1>2, <1>3, <1>4, <1>5, <1>6 DEF Next

-----------------------------------------------------------------------------
(* The theorems.                                                            *)

\* The inductive invariant of RenderQueueProofs, the files and the account.
RInv == IInv /\ Inputs /\ Counted /\ Bill

\* It holds of the empty database.
LEMMA InitRInv == Init => RInv
<1> SUFFICES ASSUME Init PROVE RInv
  OBVIOUS
<1>1. IInv BY InitIInv
<1>2. Inputs
  BY DEF Init, Inputs, InputPaths, QueuedIsBuildable, FilesOwned
<1>3. Counted
  BY QueueAssumption DEF Init, Counted, Sent, Waits, Claimed, Jobs
<1>4. ASSUME NEW j \in Jobs
      PROVE  IsFiniteSet(RendersOf(j)) /\ Cost(j) \in Nat /\ Accounted(j)
  <2>1. RendersOf(j) = {} BY DEF Init, RendersOf, Jobs
  <2>2. IsFiniteSet(RendersOf(j)) /\ Cost(j) = 0 BY <2>1, FS_EmptySet DEF Cost
  <2>3. faults = 0 /\ stops = 0 /\ status[j] = "absent" /\ ~Claimed(j)
    BY DEF Init, Claimed, Waits, Sent
  <2>4. MaxAttempts \in Nat BY QueueAssumption
  <2> QED BY <2>2, <2>3, <2>4 DEF Accounted, Claimed
<1> QED BY <1>1, <1>2, <1>3, <1>4 DEF RInv, Bill

\* Every step keeps it.
LEMMA StepRInv == RInv /\ [Next]_vars => RInv'
BY StepIInv, InputPathsStep, BuildableStep, FilesOwnedStep, CountedStep, BillStep
   DEF RInv, IInv, Inputs

\* A queued AuK job has its input file until its submission is recorded or the
\* job is deleted (worker.go submit, handleCreateJob).
THEOREM QueuedAlwaysBuildable == Spec => []QueuedIsBuildable
<1>1. RInv => QueuedIsBuildable BY DEF RInv, Inputs
<1> QED BY <1>1, InitRInv, StepRInv, PTL DEF Spec

\* Without a crash or a failed write, an input file belongs to a row or to a
\* request being served (handleCreateJob, handleDeleteJob, worker.go submit).
THEOREM InputsAlwaysOwned == Spec => []InputsOwned
<1>1. RInv => InputsOwned
  BY DEF RInv, Inputs, FilesOwned, InputsOwned
<1> QED BY <1>1, InitRInv, StepRInv, PTL DEF Spec

\* A job starts at most one render per attempt, and one for each crash, failed
\* write or stop (worker.go handleSubmitError, NoteAttempt, MarkFailed).
THEOREM CostAlwaysBounded == Spec => []CostBounded
<1>1. RInv => CostBounded
  <2> SUFFICES ASSUME RInv, NEW j \in Jobs
               PROVE  Cardinality(RendersOf(j)) <= MaxAttempts + faults + stops
    BY DEF CostBounded
  <2>1. Cost(j) \in Nat /\ Accounted(j) BY DEF RInv, Bill
  <2>2. attempts[j] \in Nat /\ faults \in Nat /\ stops \in Nat /\ MaxAttempts \in Nat
    BY QueueAssumption DEF RInv, IInv, TypeOK
  <2>3. status[j] = "queued" \/ Claimed(j) => attempts[j] < MaxAttempts
    BY DEF RInv, Counted
  <2>4. Cost(j) <= MaxAttempts + faults + stops
    BY <2>1, <2>2, <2>3 DEF Accounted, Claimed, Uncounted
  <2> QED BY <2>4 DEF Cost
<1> QED BY <1>1, InitRInv, StepRInv, PTL DEF Spec
=============================================================================
