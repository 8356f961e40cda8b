------------------------- MODULE RenderQueueProofs --------------------------
(***************************************************************************)
(* The safety of the render queue for any number of jobs, RunPod ids,      *)
(* requests, attempts, faults and stops.                                   *)
(*                                                                         *)
(* The properties are not inductive by themselves: each rests on what the  *)
(* goroutines hold between two statements.  IInv says what that is, and    *)
(* that while one of them holds a row, only a deletion can touch it.       *)
(***************************************************************************)
EXTENDS RenderQueue, FiniteSetTheorems, TLAPS

\* The worker holds a claimed job while its program counter is one of these.
Working == {"submit", "record", "retry", "fail", "cleanup"}
\* The poller holds a polled job while its program counter is one of these.
Polling == {"progress", "fail", "save", "write", "ready"}

\* What each goroutine's program counter says of the job it holds: the worker
\* and the poller hold a real job, a claim starts from an empty batch, and a
\* request that is about to unlink files has already deleted its row.
Cursors ==
  /\ wpc \in Working => wjob \in Jobs
  /\ wpc \in {"idle", "claim"} => wbatch = {}
  /\ ppc \in Polling => pjob \in Jobs
  /\ \A h \in Handlers : hpc[h] \in {"delete", "unlink"} => hjob[h] \in Jobs
  /\ \A h \in Handlers : hpc[h] = "unlink" => status[hjob[h]] = "deleted"

\* A row the poller read: it is at RunPod under the id of the poller's snapshot,
\* or it was deleted since.  Nothing else can have happened to it.
Owned(j) ==
  /\ status[j] \in InFlightStatus \cup {"deleted"}
  /\ pseen[j] = runpodID[j]
  /\ runpodID[j] # NoRender

\* From ListPendingRunPod to its verdict the poller is the only writer of the
\* rows it read, except for their deletion (poller.go Tick, pollOne, complete).
PollerOwns ==
  /\ \A j \in pbatch : Owned(j)
  /\ ppc \in Polling => pjob \notin pbatch /\ Owned(pjob)

\* ReadyIsPlayable, made inductive: once saveRender returned, and until
\* MarkReady, the file of the job being completed is the render of the snapshot.
Playable ==
  /\ ReadyIsPlayable
  /\ ppc = "ready" /\ status[pjob] # "deleted" => audio[pjob] = pseen[pjob]

\* The jobs the worker has taken from its claim and not yet settled.
Outstanding ==
  wbatch \cup {j \in {wjob} : wpc \in Working \ {"cleanup"}}

\* BudgetRespected, made inductive: a tick's count of the rows at RunPod stays
\* an upper bound until the claim, and the claimed jobs still to be submitted
\* already count against the budget (worker.go Tick).
Budget ==
  /\ wpc = "claim" => Cardinality(InFlight) + wcap <= MaxInFlight
  /\ Cardinality(InFlight \cup Outstanding) <= MaxInFlight

\* The inductive invariant.
IInv == TypeOK /\ Cursors /\ PollerOwns /\ Playable /\ Budget

-----------------------------------------------------------------------------
(* Types.                                                                   *)

\* There are finitely many jobs, so cardinalities are numbers.
LEMMA InFlightFinite == IsFiniteSet(Jobs) /\ IsFiniteSet(InFlight)
<1>1. IsFiniteSet(Jobs)
  BY QueueAssumption, FS_Interval DEF Jobs
<1> QED
  BY <1>1, FS_Subset DEF InFlight

\* TypeOK for the jobs table.
RowType ==
  /\ status \in [Jobs -> Statuses]
  /\ runpodID \in [Jobs -> Renders \cup {NoRender}]
  /\ attempts \in [Jobs -> Nat]
  /\ model \in [Jobs -> Models \cup {AuK}]
  /\ inputOf \in [Jobs -> Paths \cup {NoPath}]

\* TypeOK for the process and the fault counters.
ProcType ==
  /\ proc \in {"up", "stopping", "down"}
  /\ faults \in 0..MaxFaults
  /\ stops \in 0..MaxStops

\* A statement that fails, or runs under a cancelled context, keeps the
\* counters within their bounds (jobs.go, any ExecContext).
LEMMA FaultType ==
  ASSUME TypeOK, Fault \/ Cancelled \/ UNCHANGED procVars
  PROVE  ProcType'
BY QueueAssumption DEF TypeOK, ProcType, Fault, Cancelled, procVars

\* Each UPDATE of internal/jobs leaves a well-typed table.
LEMMA WriteType ==
  ASSUME TypeOK, NEW j \in Jobs,
         \/ NoteAttempt(j) \/ MarkFailed(j) \/ UpdateStatus(j, "in_progress")
         \/ MarkReady(j) \/ MarkPollerFailed(j) \/ UNCHANGED rowVars
  PROVE  RowType'
<1> USE DEF TypeOK, RowType, Statuses, InFlightStatus, rowVars
<1>1. CASE NoteAttempt(j) BY <1>1 DEF NoteAttempt
<1>2. CASE MarkFailed(j) BY <1>2 DEF MarkFailed
<1>3. CASE UpdateStatus(j, "in_progress") BY <1>3 DEF UpdateStatus
<1>4. CASE MarkReady(j) BY <1>4 DEF MarkReady
<1>5. CASE MarkPollerFailed(j) BY <1>5 DEF MarkPollerFailed
<1> QED
  BY <1>1, <1>2, <1>3, <1>4, <1>5

\* So does recording a submission under either status RunPod may answer.
LEMMA StoreSubmissionType ==
  ASSUME TypeOK, wjob \in Jobs, StoreSubmission
  PROVE  RowType'
<1>1. PICK s \in InFlightStatus : MarkSubmitted(wjob, wsub, s)
  BY DEF StoreSubmission, StatusForRunPod, InFlightStatus
<1> QED
  BY <1>1 DEF TypeOK, RowType, MarkSubmitted, Statuses, InFlightStatus

\* Every step keeps the state well typed.
LEMMA TypeStep ==
  ASSUME TypeOK, Cursors, PollerOwns, [Next]_vars
  PROVE  TypeOK'
<1> USE QueueAssumption DEF TypeOK, RowType, ProcType, Cursors, PollerOwns,
            Owned, Working, Polling, Jobs, Statuses, InFlightStatus, rowVars,
            diskVars, runpodVars, workerVars, pollerVars, handlerVars, procVars
<1>1. CASE Worker
  <2>1. CASE TickInFlight
    <3>1. Cardinality(InFlight) \in Nat
      BY InFlightFinite, FS_CardinalityType
    <3>2. wcap' \in Nat
      BY <2>1, <3>1 DEF TickInFlight
    <3> QED
      BY <2>1, <3>2 DEF TickInFlight
  <2>2. CASE TickClaim BY <2>2 DEF TickClaim, ClaimQueued
  <2>3. CASE TickNext BY <2>3 DEF TickNext
  <2>4. CASE TickEnds BY <2>4 DEF TickEnds, EndTick
  <2>5. CASE SubmitUnbuildable BY <2>5 DEF SubmitUnbuildable, WorkerGoes
  <2>6. CASE SubmitTransient
    BY <2>6 DEF SubmitTransient, WorkerGoes, AfterTransient
  <2>7. CASE SubmitRejected BY <2>7 DEF SubmitRejected, WorkerGoes
  <2>8. ASSUME NEW r \in Renders, SubmitAccepted(r) PROVE TypeOK'
    BY <2>8 DEF SubmitAccepted, Accept
  <2>9. ASSUME NEW r \in Renders, SubmitAnswerLost(r) PROVE TypeOK'
    BY <2>9 DEF SubmitAnswerLost, Accept, WorkerGoes, AfterTransient
  <2>10. CASE RecordSubmitted
    <3>1. RowType'
      BY <2>10, StoreSubmissionType DEF RecordSubmitted
    <3>2. CASE WorkerGoes("cleanup")
      BY <2>10, <3>1, <3>2 DEF RecordSubmitted, WorkerGoes
    <3>3. CASE EndSubmit BY <2>10, <3>1, <3>3 DEF RecordSubmitted, EndSubmit
    <3> QED
      BY <2>10, <3>2, <3>3 DEF RecordSubmitted
  <2>11. CASE RecordFails
    <3>1. ProcType' /\ RowType'
      BY <2>11, FaultType, WriteType, StoreSubmissionType DEF RecordFails
    <3> QED
      BY <2>11, <3>1 DEF RecordFails
  <2>12. CASE RemoveInputs BY <2>12 DEF RemoveInputs, EndSubmit
  <2>13. CASE Retry
    <3>1. ProcType' /\ RowType'
      BY <2>13, FaultType, WriteType DEF Retry
    <3> QED
      BY <2>13, <3>1 DEF Retry, EndSubmit
  <2>14. CASE Fail
    <3>1. ProcType' /\ RowType'
      BY <2>14, FaultType, WriteType DEF Fail
    <3> QED
      BY <2>14, <3>1 DEF Fail, EndSubmit
  <2> QED
    BY <1>1, <2>1, <2>2, <2>3, <2>4, <2>5, <2>6, <2>7, <2>8, <2>9, <2>10,
       <2>11, <2>12, <2>13, <2>14 DEF Worker
<1>2. CASE Poller
  <2>1. CASE PollList BY <2>1 DEF PollList, ListPendingRunPod
  <2>2. CASE PollEnds BY <2>2 DEF PollEnds
  <2>3. ASSUME NEW j \in Jobs, NEW pc \in {"next", "fail", "progress", "save"},
               Poll(j, pc)
        PROVE  TypeOK'
    BY <2>3 DEF Poll
  <2>4. CASE Progress
    <3>1. ProcType' /\ RowType'
      BY <2>4, FaultType, WriteType DEF Progress
    <3> QED
      BY <2>4, <3>1 DEF Progress, EndPoll
  <2>5. CASE OutputUnusable BY <2>5 DEF OutputUnusable, PollerGoes
  <2>6. CASE WriteBegins BY <2>6 DEF WriteBegins, PollerGoes
  <2>7. CASE WriteEnds
    <3>1. ProcType'
      BY <2>7, FaultType DEF WriteEnds
    <3>2. CASE /\ audio' = [audio EXCEPT ![pjob] = pseen[pjob]]
               /\ PollerGoes("ready")
      BY <2>7, <3>1, <3>2 DEF WriteEnds, PollerGoes, Fault
    <3>3. CASE PollerGoes("fail") /\ UNCHANGED audio
      BY <2>7, <3>1, <3>3 DEF WriteEnds, PollerGoes, Fault
    <3> QED
      BY <2>7, <3>2, <3>3 DEF WriteEnds
  <2>8. CASE Ready
    <3>1. ProcType' /\ RowType'
      BY <2>8, FaultType, WriteType DEF Ready
    <3> QED
      BY <2>8, <3>1 DEF Ready, EndPoll
  <2>9. CASE PollerFail
    <3>1. ProcType' /\ RowType'
      BY <2>9, FaultType, WriteType DEF PollerFail
    <3> QED
      BY <2>9, <3>1 DEF PollerFail, EndPoll
  <2> QED
    BY <1>2, <2>1, <2>2, <2>3, <2>4, <2>5, <2>6, <2>7, <2>8, <2>9
       DEF Poller, PollNothing, PollRejected, PollRunning, PollFailed,
           PollCompleted
<1>3. ASSUME NEW h \in Handlers, Handler(h) PROVE TypeOK'
  <2>1. ASSUME NEW j \in Jobs, NEW e \in Models, CreateJob(h, j, e)
        PROVE  TypeOK'
    BY <2>1 DEF CreateJob, Insert
  <2>2. ASSUME NEW j \in Jobs, EnqueueAuK(h, j) PROVE TypeOK'
    BY <2>2, SMTT(30) DEF EnqueueAuK, Insert, EndRequest
  <2>3. ASSUME NEW j \in Jobs, DeleteGet(h, j) PROVE TypeOK'
    BY <2>3, SMTT(30) DEF DeleteGet
  <2>4. ASSUME NEW p \in Paths, SaveInput(h, p) PROVE TypeOK'
    BY <2>4 DEF SaveInput
  <2>5. CASE EnqueueRefused(h) BY <2>5 DEF EnqueueRefused, EndRequest
  <2>6. CASE DeleteRow(h) BY <2>6 DEF DeleteRow
  <2>7. CASE DeleteGivesUp(h) BY <2>7 DEF DeleteGivesUp, EndRequest
  <2>8. CASE Unlink(h) BY <2>8, SMTT(30) DEF Unlink, EndRequest
  <2> QED
    BY <1>3, <2>1, <2>2, <2>3, <2>4, <2>5, <2>6, <2>7, <2>8 DEF Handler
<1>4. CASE RunPod
  <2>1. ASSUME NEW r \in Renders, NEW from, NEW to \in {"running", "completed",
               "failed"}, RenderMoves(r, from, to)
        PROVE  TypeOK'
    BY <2>1 DEF RenderMoves
  <2> QED
    BY <1>4, <2>1 DEF RunPod, RenderStarts, RenderCompletes, RenderFails
<1>5. CASE Process
  <2>1. CASE Crash BY <2>1 DEF Crash, Forget, EndTick
  <2>2. CASE Stop BY <2>2 DEF Stop
  <2>3. CASE Exit BY <2>3 DEF Exit
  <2>4. CASE Restart BY <2>4 DEF Restart
  <2> QED
    BY <1>5, <2>1, <2>2, <2>3, <2>4 DEF Process
<1>6. CASE UNCHANGED vars BY <1>6 DEF vars
<1> QED
  BY <1>1, <1>2, <1>3, <1>4, <1>5, <1>6 DEF Next

-----------------------------------------------------------------------------
(* What the goroutines hold, and the files of ready rows.                   *)

\* Every step keeps the cursors meaningful.
LEMMA CursorsStep ==
  ASSUME TypeOK, Cursors, PollerOwns, [Next]_vars
  PROVE  Cursors'
<1> USE QueueAssumption DEF TypeOK, Cursors, PollerOwns, Owned, Present,
            Working, Polling, InFlightStatus, rowVars, diskVars, runpodVars,
            workerVars, pollerVars, handlerVars, procVars
<1>1. CASE Worker
  <2>1. CASE TickInFlight BY <2>1 DEF TickInFlight
  <2>2. CASE TickClaim BY <2>2 DEF TickClaim, ClaimQueued
  <2>3. CASE TickNext BY <2>3 DEF TickNext
  <2>4. CASE TickEnds BY <2>4 DEF TickEnds, EndTick
  <2>5. CASE SubmitUnbuildable BY <2>5 DEF SubmitUnbuildable, WorkerGoes
  <2>6. CASE SubmitTransient
    BY <2>6 DEF SubmitTransient, WorkerGoes, AfterTransient
  <2>7. CASE SubmitRejected BY <2>7 DEF SubmitRejected, WorkerGoes
  <2>8. ASSUME NEW r \in Renders, SubmitAccepted(r) PROVE Cursors'
    BY <2>8 DEF SubmitAccepted, Accept
  <2>9. ASSUME NEW r \in Renders, SubmitAnswerLost(r) PROVE Cursors'
    BY <2>9 DEF SubmitAnswerLost, Accept, WorkerGoes, AfterTransient
  <2>10. CASE RecordSubmitted
    BY <2>10
       DEF RecordSubmitted, StoreSubmission, StatusForRunPod, MarkSubmitted,
           Unclaimed, EndSubmit, WorkerGoes
  <2>11. CASE RecordFails
    BY <2>11
       DEF RecordFails, StoreSubmission, StatusForRunPod, MarkSubmitted,
           Unclaimed, Fault, Cancelled
  <2>12. CASE RemoveInputs BY <2>12 DEF RemoveInputs, EndSubmit
  <2>13. CASE Retry
    BY <2>13 DEF Retry, NoteAttempt, EndSubmit, Fault, Cancelled
  <2>14. CASE Fail BY <2>14 DEF Fail, MarkFailed, EndSubmit, Fault
  <2> QED
    BY <1>1, <2>1, <2>2, <2>3, <2>4, <2>5, <2>6, <2>7, <2>8, <2>9, <2>10,
       <2>11, <2>12, <2>13, <2>14 DEF Worker
<1>2. CASE Poller
  <2>1. CASE PollList BY <2>1 DEF PollList, ListPendingRunPod
  <2>2. CASE PollEnds BY <2>2 DEF PollEnds
  <2>3. ASSUME NEW j \in Jobs, NEW pc \in {"next", "fail", "progress", "save"},
               Poll(j, pc)
        PROVE  Cursors'
    BY <2>3 DEF Poll
  <2>4. CASE Progress
    BY <2>4 DEF Progress, UpdateStatus, EndPoll, Fault, Cancelled
  <2>5. CASE OutputUnusable BY <2>5 DEF OutputUnusable, PollerGoes
  <2>6. CASE WriteBegins BY <2>6 DEF WriteBegins, PollerGoes
  <2>7. CASE WriteEnds BY <2>7 DEF WriteEnds, PollerGoes, Fault
  <2>8. CASE Ready BY <2>8 DEF Ready, MarkReady, EndPoll, Fault, Cancelled
  <2>9. CASE PollerFail
    BY <2>9 DEF PollerFail, MarkPollerFailed, EndPoll, Fault
  <2> QED
    BY <1>2, <2>1, <2>2, <2>3, <2>4, <2>5, <2>6, <2>7, <2>8, <2>9
       DEF Poller, PollNothing, PollRejected, PollRunning, PollFailed,
           PollCompleted
<1>3. ASSUME NEW h \in Handlers, Handler(h) PROVE Cursors'
  <2>1. ASSUME NEW j \in Jobs, NEW e \in Models, CreateJob(h, j, e)
        PROVE  Cursors'
    BY <2>1 DEF CreateJob, Insert
  <2>2. ASSUME NEW j \in Jobs, EnqueueAuK(h, j) PROVE Cursors'
    BY <2>2 DEF EnqueueAuK, Insert, EndRequest
  <2>3. ASSUME NEW j \in Jobs, DeleteGet(h, j) PROVE Cursors'
    BY <2>3 DEF DeleteGet
  <2>4. ASSUME NEW p \in Paths, SaveInput(h, p) PROVE Cursors'
    BY <2>4 DEF SaveInput
  <2>5. CASE EnqueueRefused(h) BY <2>5 DEF EnqueueRefused, EndRequest
  <2>6. CASE DeleteRow(h) BY <2>6 DEF DeleteRow
  <2>7. CASE DeleteGivesUp(h) BY <2>7 DEF DeleteGivesUp, EndRequest
  <2>8. CASE Unlink(h) BY <2>8 DEF Unlink, EndRequest
  <2> QED
    BY <1>3, <2>1, <2>2, <2>3, <2>4, <2>5, <2>6, <2>7, <2>8 DEF Handler
<1>4. CASE RunPod
  <2>1. ASSUME NEW r \in Renders, NEW from, NEW to \in {"running", "completed",
               "failed"}, RenderMoves(r, from, to)
        PROVE  Cursors'
    BY <2>1 DEF RenderMoves
  <2> QED
    BY <1>4, <2>1 DEF RunPod, RenderStarts, RenderCompletes, RenderFails
<1>5. CASE Process
  <2>1. CASE Crash BY <2>1 DEF Crash, Forget, EndTick
  <2>2. CASE Stop BY <2>2 DEF Stop
  <2>3. CASE Exit BY <2>3 DEF Exit
  <2>4. CASE Restart BY <2>4 DEF Restart
  <2> QED
    BY <1>5, <2>1, <2>2, <2>3, <2>4 DEF Process
<1>6. CASE UNCHANGED vars BY <1>6 DEF vars
<1> QED
  BY <1>1, <1>2, <1>3, <1>4, <1>5, <1>6 DEF Next

\* No step of the worker or of a request takes a row from the poller.
LEMMA PollerOwnsStep ==
  ASSUME TypeOK, Cursors, PollerOwns, [Next]_vars
  PROVE  PollerOwns'
<1> USE QueueAssumption DEF TypeOK, Cursors, PollerOwns, Owned, Present,
            Unclaimed, InFlight, Working, Polling, InFlightStatus, rowVars,
            diskVars, runpodVars, workerVars, pollerVars, handlerVars, procVars
<1>1. CASE Worker
  <2>1. CASE TickInFlight BY <2>1 DEF TickInFlight
  <2>2. CASE TickClaim BY <2>2 DEF TickClaim, ClaimQueued
  <2>3. CASE TickNext BY <2>3 DEF TickNext
  <2>4. CASE TickEnds BY <2>4 DEF TickEnds, EndTick
  <2>5. CASE SubmitUnbuildable BY <2>5 DEF SubmitUnbuildable, WorkerGoes
  <2>6. CASE SubmitTransient
    BY <2>6 DEF SubmitTransient, WorkerGoes, AfterTransient
  <2>7. CASE SubmitRejected BY <2>7 DEF SubmitRejected, WorkerGoes
  <2>8. ASSUME NEW r \in Renders, SubmitAccepted(r) PROVE PollerOwns'
    BY <2>8 DEF SubmitAccepted, Accept
  <2>9. ASSUME NEW r \in Renders, SubmitAnswerLost(r) PROVE PollerOwns'
    BY <2>9 DEF SubmitAnswerLost, Accept, WorkerGoes, AfterTransient
  <2>10. CASE RecordSubmitted
    BY <2>10
       DEF RecordSubmitted, StoreSubmission, StatusForRunPod, MarkSubmitted,
           Unclaimed, EndSubmit, WorkerGoes
  <2>11. CASE RecordFails
    BY <2>11
       DEF RecordFails, StoreSubmission, StatusForRunPod, MarkSubmitted,
           Unclaimed, Fault, Cancelled
  <2>12. CASE RemoveInputs BY <2>12 DEF RemoveInputs, EndSubmit
  <2>13. CASE Retry
    BY <2>13 DEF Retry, NoteAttempt, EndSubmit, Fault, Cancelled
  <2>14. CASE Fail BY <2>14 DEF Fail, MarkFailed, EndSubmit, Fault
  <2> QED
    BY <1>1, <2>1, <2>2, <2>3, <2>4, <2>5, <2>6, <2>7, <2>8, <2>9, <2>10,
       <2>11, <2>12, <2>13, <2>14 DEF Worker
<1>2. CASE Poller
  <2>1. CASE PollList BY <2>1 DEF PollList, ListPendingRunPod
  <2>2. CASE PollEnds BY <2>2 DEF PollEnds
  <2>3. ASSUME NEW j \in Jobs, NEW pc \in {"next", "fail", "progress", "save"},
               Poll(j, pc)
        PROVE  PollerOwns'
    BY <2>3 DEF Poll
  <2>4. CASE Progress
    BY <2>4 DEF Progress, UpdateStatus, EndPoll, Fault, Cancelled
  <2>5. CASE OutputUnusable BY <2>5 DEF OutputUnusable, PollerGoes
  <2>6. CASE WriteBegins BY <2>6 DEF WriteBegins, PollerGoes
  <2>7. CASE WriteEnds BY <2>7 DEF WriteEnds, PollerGoes, Fault
  <2>8. CASE Ready BY <2>8 DEF Ready, MarkReady, EndPoll, Fault, Cancelled
  <2>9. CASE PollerFail
    BY <2>9 DEF PollerFail, MarkPollerFailed, EndPoll, Fault
  <2> QED
    BY <1>2, <2>1, <2>2, <2>3, <2>4, <2>5, <2>6, <2>7, <2>8, <2>9
       DEF Poller, PollNothing, PollRejected, PollRunning, PollFailed,
           PollCompleted
<1>3. ASSUME NEW h \in Handlers, Handler(h) PROVE PollerOwns'
  <2>1. ASSUME NEW j \in Jobs, NEW e \in Models, CreateJob(h, j, e)
        PROVE  PollerOwns'
    BY <2>1 DEF CreateJob, Insert
  <2>2. ASSUME NEW j \in Jobs, EnqueueAuK(h, j) PROVE PollerOwns'
    BY <2>2 DEF EnqueueAuK, Insert, EndRequest
  <2>3. ASSUME NEW j \in Jobs, DeleteGet(h, j) PROVE PollerOwns'
    BY <2>3 DEF DeleteGet
  <2>4. ASSUME NEW p \in Paths, SaveInput(h, p) PROVE PollerOwns'
    BY <2>4 DEF SaveInput
  <2>5. CASE EnqueueRefused(h) BY <2>5 DEF EnqueueRefused, EndRequest
  <2>6. CASE DeleteRow(h) BY <2>6 DEF DeleteRow
  <2>7. CASE DeleteGivesUp(h) BY <2>7 DEF DeleteGivesUp, EndRequest
  <2>8. CASE Unlink(h) BY <2>8 DEF Unlink, EndRequest
  <2> QED
    BY <1>3, <2>1, <2>2, <2>3, <2>4, <2>5, <2>6, <2>7, <2>8 DEF Handler
<1>4. CASE RunPod
  <2>1. ASSUME NEW r \in Renders, NEW from, NEW to \in {"running", "completed",
               "failed"}, RenderMoves(r, from, to)
        PROVE  PollerOwns'
    BY <2>1 DEF RenderMoves
  <2> QED
    BY <1>4, <2>1 DEF RunPod, RenderStarts, RenderCompletes, RenderFails
<1>5. CASE Process
  <2>1. CASE Crash BY <2>1 DEF Crash, Forget, EndTick
  <2>2. CASE Stop BY <2>2 DEF Stop
  <2>3. CASE Exit BY <2>3 DEF Exit
  <2>4. CASE Restart BY <2>4 DEF Restart
  <2> QED
    BY <1>5, <2>1, <2>2, <2>3, <2>4 DEF Process
<1>6. CASE UNCHANGED vars BY <1>6 DEF vars
<1> QED
  BY <1>1, <1>2, <1>3, <1>4, <1>5, <1>6 DEF Next

\* No step separates a ready row from its file: no row is made ready before
\* its file is complete, and no file of a ready row is written again.
LEMMA PlayableStep ==
  ASSUME TypeOK, Cursors, PollerOwns, Playable, [Next]_vars
  PROVE  Playable'
<1> USE QueueAssumption DEF TypeOK, Cursors, PollerOwns, Owned, Present,
            Playable, ReadyIsPlayable, Polling, InFlightStatus, rowVars,
            diskVars, runpodVars, workerVars, pollerVars, handlerVars, procVars
<1>1. CASE Worker
  <2>1. CASE TickInFlight BY <2>1 DEF TickInFlight
  <2>2. CASE TickClaim BY <2>2 DEF TickClaim, ClaimQueued
  <2>3. CASE TickNext BY <2>3 DEF TickNext
  <2>4. CASE TickEnds BY <2>4 DEF TickEnds, EndTick
  <2>5. CASE SubmitUnbuildable BY <2>5 DEF SubmitUnbuildable, WorkerGoes
  <2>6. CASE SubmitTransient
    BY <2>6 DEF SubmitTransient, WorkerGoes, AfterTransient
  <2>7. CASE SubmitRejected BY <2>7 DEF SubmitRejected, WorkerGoes
  <2>8. ASSUME NEW r \in Renders, SubmitAccepted(r) PROVE Playable'
    BY <2>8 DEF SubmitAccepted, Accept
  <2>9. ASSUME NEW r \in Renders, SubmitAnswerLost(r) PROVE Playable'
    BY <2>9 DEF SubmitAnswerLost, Accept, WorkerGoes, AfterTransient
  <2>10. CASE RecordSubmitted
    BY <2>10
       DEF RecordSubmitted, StoreSubmission, StatusForRunPod, MarkSubmitted,
           Unclaimed, EndSubmit, WorkerGoes
  <2>11. CASE RecordFails
    BY <2>11
       DEF RecordFails, StoreSubmission, StatusForRunPod, MarkSubmitted,
           Unclaimed, Fault, Cancelled
  <2>12. CASE RemoveInputs BY <2>12 DEF RemoveInputs, EndSubmit
  <2>13. CASE Retry
    BY <2>13 DEF Retry, NoteAttempt, EndSubmit, Fault, Cancelled
  <2>14. CASE Fail BY <2>14 DEF Fail, MarkFailed, EndSubmit, Fault
  <2> QED
    BY <1>1, <2>1, <2>2, <2>3, <2>4, <2>5, <2>6, <2>7, <2>8, <2>9, <2>10,
       <2>11, <2>12, <2>13, <2>14 DEF Worker
<1>2. CASE Poller
  <2>1. CASE PollList BY <2>1 DEF PollList, ListPendingRunPod
  <2>2. CASE PollEnds BY <2>2 DEF PollEnds
  <2>3. ASSUME NEW j \in Jobs, NEW pc \in {"next", "fail", "progress", "save"},
               Poll(j, pc)
        PROVE  Playable'
    BY <2>3 DEF Poll
  <2>4. CASE Progress
    BY <2>4 DEF Progress, UpdateStatus, EndPoll, Fault, Cancelled
  <2>5. CASE OutputUnusable BY <2>5 DEF OutputUnusable, PollerGoes
  <2>6. CASE WriteBegins BY <2>6 DEF WriteBegins, PollerGoes
  <2>7. CASE WriteEnds BY <2>7 DEF WriteEnds, PollerGoes, Fault
  <2>8. CASE Ready BY <2>8 DEF Ready, MarkReady, EndPoll, Fault, Cancelled
  <2>9. CASE PollerFail
    BY <2>9 DEF PollerFail, MarkPollerFailed, EndPoll, Fault
  <2> QED
    BY <1>2, <2>1, <2>2, <2>3, <2>4, <2>5, <2>6, <2>7, <2>8, <2>9
       DEF Poller, PollNothing, PollRejected, PollRunning, PollFailed,
           PollCompleted
<1>3. ASSUME NEW h \in Handlers, Handler(h) PROVE Playable'
  <2>1. ASSUME NEW j \in Jobs, NEW e \in Models, CreateJob(h, j, e)
        PROVE  Playable'
    BY <2>1 DEF CreateJob, Insert
  <2>2. ASSUME NEW j \in Jobs, EnqueueAuK(h, j) PROVE Playable'
    BY <2>2 DEF EnqueueAuK, Insert, EndRequest
  <2>3. ASSUME NEW j \in Jobs, DeleteGet(h, j) PROVE Playable'
    BY <2>3 DEF DeleteGet
  <2>4. ASSUME NEW p \in Paths, SaveInput(h, p) PROVE Playable'
    BY <2>4 DEF SaveInput
  <2>5. CASE EnqueueRefused(h) BY <2>5 DEF EnqueueRefused, EndRequest
  <2>6. CASE DeleteRow(h) BY <2>6 DEF DeleteRow
  <2>7. CASE DeleteGivesUp(h) BY <2>7 DEF DeleteGivesUp, EndRequest
  <2>8. CASE Unlink(h) BY <2>8 DEF Unlink, EndRequest
  <2> QED
    BY <1>3, <2>1, <2>2, <2>3, <2>4, <2>5, <2>6, <2>7, <2>8 DEF Handler
<1>4. CASE RunPod
  <2>1. ASSUME NEW r \in Renders, NEW from, NEW to \in {"running", "completed",
               "failed"}, RenderMoves(r, from, to)
        PROVE  Playable'
    BY <2>1 DEF RenderMoves
  <2> QED
    BY <1>4, <2>1 DEF RunPod, RenderStarts, RenderCompletes, RenderFails
<1>5. CASE Process
  <2>1. CASE Crash BY <2>1 DEF Crash, Forget, EndTick
  <2>2. CASE Stop BY <2>2 DEF Stop
  <2>3. CASE Exit BY <2>3 DEF Exit
  <2>4. CASE Restart BY <2>4 DEF Restart
  <2> QED
    BY <1>5, <2>1, <2>2, <2>3, <2>4 DEF Process
<1>6. CASE UNCHANGED vars BY <1>6 DEF vars
<1> QED
  BY <1>1, <1>2, <1>3, <1>4, <1>5, <1>6 DEF Next


-----------------------------------------------------------------------------
(* The budget.                                                              *)

\* What counts against the budget: the rows at RunPod and the claimed jobs.
Held == InFlight \cup Outstanding

\* A step that neither counts nor claims adds nothing to what is held: a job
\* enters InFlight only from the claimed ones (jobs.go MarkSubmitted).
NoGrowth ==
  /\ InFlight' \cup Outstanding' \subseteq InFlight \cup Outstanding
  /\ wpc' = "claim" => /\ wpc = "claim" /\ wcap' = wcap
                       /\ InFlight' \subseteq InFlight

\* All steps but the two statements a tick starts with are of that kind.
LEMMA NoGrowthStep ==
  ASSUME TypeOK, Cursors, PollerOwns, [Next]_vars, ~TickInFlight, ~TickClaim
  PROVE  NoGrowth
<1> USE DEF TypeOK, Cursors, PollerOwns, Owned, Present, Unclaimed, Working,
            Polling, InFlightStatus, rowVars, diskVars, runpodVars, workerVars,
            pollerVars, handlerVars, procVars
<1>1. CASE Worker
  <2>1. CASE TickNext BY <2>1 DEF NoGrowth, InFlight, Outstanding, TickNext
  <2>2. CASE TickEnds
    BY <2>2 DEF NoGrowth, InFlight, Outstanding, TickEnds, EndTick
  <2>3. CASE SubmitUnbuildable
    BY <2>3 DEF NoGrowth, InFlight, Outstanding, SubmitUnbuildable, WorkerGoes
  <2>4. CASE SubmitTransient
    BY <2>4
       DEF NoGrowth, InFlight, Outstanding, SubmitTransient, WorkerGoes,
           AfterTransient
  <2>5. CASE SubmitRejected
    BY <2>5 DEF NoGrowth, InFlight, Outstanding, SubmitRejected, WorkerGoes
  <2>6. ASSUME NEW r \in Renders, SubmitAccepted(r) PROVE NoGrowth
    BY <2>6 DEF NoGrowth, InFlight, Outstanding, SubmitAccepted, Accept
  <2>7. ASSUME NEW r \in Renders, SubmitAnswerLost(r) PROVE NoGrowth
    BY <2>7
       DEF NoGrowth, InFlight, Outstanding, SubmitAnswerLost, Accept,
           WorkerGoes, AfterTransient
  <2>8. CASE RecordSubmitted
    BY <2>8
       DEF NoGrowth, InFlight, Outstanding, RecordSubmitted, StoreSubmission,
           StatusForRunPod, MarkSubmitted, Unclaimed, EndSubmit, WorkerGoes
  <2>9. CASE RecordFails
    BY <2>9
       DEF NoGrowth, InFlight, Outstanding, RecordFails, StoreSubmission,
           StatusForRunPod, MarkSubmitted, Unclaimed, Fault, Cancelled
  <2>10. CASE RemoveInputs
    BY <2>10 DEF NoGrowth, InFlight, Outstanding, RemoveInputs, EndSubmit
  <2>11. CASE Retry
    BY <2>11
       DEF NoGrowth, InFlight, Outstanding, Retry, NoteAttempt, EndSubmit,
           Fault, Cancelled
  <2>12. CASE Fail
    BY <2>12
       DEF NoGrowth, InFlight, Outstanding, Fail, MarkFailed, EndSubmit, Fault
  <2> QED
    BY <1>1, <2>1, <2>2, <2>3, <2>4, <2>5, <2>6, <2>7, <2>8, <2>9, <2>10,
       <2>11, <2>12 DEF Worker
<1>2. CASE Poller
  <2>1. CASE PollList
    BY <2>1 DEF NoGrowth, InFlight, Outstanding, PollList, ListPendingRunPod
  <2>2. CASE PollEnds BY <2>2 DEF NoGrowth, InFlight, Outstanding, PollEnds
  <2>3. ASSUME NEW j \in Jobs, NEW pc \in {"next", "fail", "progress", "save"},
               Poll(j, pc)
        PROVE  NoGrowth
    BY <2>3 DEF NoGrowth, InFlight, Outstanding, Poll
  <2>4. CASE Progress
    BY <2>4
       DEF NoGrowth, InFlight, Outstanding, Progress, UpdateStatus, EndPoll,
           Fault, Cancelled
  <2>5. CASE OutputUnusable
    BY <2>5 DEF NoGrowth, InFlight, Outstanding, OutputUnusable, PollerGoes
  <2>6. CASE WriteBegins
    BY <2>6 DEF NoGrowth, InFlight, Outstanding, WriteBegins, PollerGoes
  <2>7. CASE WriteEnds
    BY <2>7 DEF NoGrowth, InFlight, Outstanding, WriteEnds, PollerGoes, Fault
  <2>8. CASE Ready
    BY <2>8
       DEF NoGrowth, InFlight, Outstanding, Ready, MarkReady, EndPoll, Fault,
           Cancelled
  <2>9. CASE PollerFail
    BY <2>9
       DEF NoGrowth, InFlight, Outstanding, PollerFail, MarkPollerFailed,
           EndPoll, Fault
  <2> QED
    BY <1>2, <2>1, <2>2, <2>3, <2>4, <2>5, <2>6, <2>7, <2>8, <2>9
       DEF Poller, PollNothing, PollRejected, PollRunning, PollFailed,
           PollCompleted
<1>3. ASSUME NEW h \in Handlers, Handler(h) PROVE NoGrowth
  <2>1. ASSUME NEW j \in Jobs, NEW e \in Models, CreateJob(h, j, e)
        PROVE  NoGrowth
    BY <2>1 DEF NoGrowth, InFlight, Outstanding, CreateJob, Insert
  <2>2. ASSUME NEW j \in Jobs, EnqueueAuK(h, j) PROVE NoGrowth
    BY <2>2 DEF NoGrowth, InFlight, Outstanding, EnqueueAuK, Insert, EndRequest
  <2>3. ASSUME NEW j \in Jobs, DeleteGet(h, j) PROVE NoGrowth
    BY <2>3 DEF NoGrowth, InFlight, Outstanding, DeleteGet
  <2>4. ASSUME NEW p \in Paths, SaveInput(h, p) PROVE NoGrowth
    BY <2>4 DEF NoGrowth, InFlight, Outstanding, SaveInput
  <2>5. CASE EnqueueRefused(h)
    BY <2>5 DEF NoGrowth, InFlight, Outstanding, EnqueueRefused, EndRequest
  <2>6. CASE DeleteRow(h)
    BY <2>6 DEF NoGrowth, InFlight, Outstanding, DeleteRow
  <2>7. CASE DeleteGivesUp(h)
    BY <2>7 DEF NoGrowth, InFlight, Outstanding, DeleteGivesUp, EndRequest
  <2>8. CASE Unlink(h)
    BY <2>8 DEF NoGrowth, InFlight, Outstanding, Unlink, EndRequest
  <2> QED
    BY <1>3, <2>1, <2>2, <2>3, <2>4, <2>5, <2>6, <2>7, <2>8 DEF Handler
<1>4. CASE RunPod
  <2>1. ASSUME NEW r \in Renders, NEW from, NEW to \in {"running", "completed",
               "failed"}, RenderMoves(r, from, to)
        PROVE  NoGrowth
    BY <2>1 DEF NoGrowth, InFlight, Outstanding, RenderMoves
  <2> QED
    BY <1>4, <2>1 DEF RunPod, RenderStarts, RenderCompletes, RenderFails
<1>5. CASE Process
  <2>1. CASE Crash
    BY <2>1 DEF NoGrowth, InFlight, Outstanding, Crash, Forget, EndTick
  <2>2. CASE Stop BY <2>2 DEF NoGrowth, InFlight, Outstanding, Stop
  <2>3. CASE Exit BY <2>3 DEF NoGrowth, InFlight, Outstanding, Exit
  <2>4. CASE Restart BY <2>4 DEF NoGrowth, InFlight, Outstanding, Restart
  <2> QED
    BY <1>5, <2>1, <2>2, <2>3, <2>4 DEF Process
<1>6. CASE UNCHANGED vars BY <1>6 DEF NoGrowth, InFlight, Outstanding, vars
<1> QED
  BY <1>1, <1>2, <1>3, <1>4, <1>5, <1>6 DEF Next

\* What is held is finite.
LEMMA HeldFinite == ASSUME TypeOK, Cursors PROVE IsFiniteSet(Held)
<1>1. Outstanding \subseteq Jobs
  BY DEF Outstanding, Working, TypeOK, Cursors
<1> QED
  BY <1>1, InFlightFinite, FS_Subset DEF Held, InFlight

\* Every step respects the strengthened budget.
LEMMA BudgetStep ==
  ASSUME TypeOK, Cursors, PollerOwns, Budget, [Next]_vars
  PROVE  Budget'
<1>1. /\ IsFiniteSet(Held)
      /\ Cardinality(Held) \in Nat
      /\ IsFiniteSet(InFlight)
      /\ Cardinality(InFlight) \in Nat
  BY HeldFinite, InFlightFinite, FS_CardinalityType
<1>2. CASE TickInFlight
  <2>1. InFlight' = InFlight /\ Outstanding' = Outstanding
    BY <1>2 DEF TickInFlight, InFlight, Outstanding, rowVars, Working
  <2>2. wcap' = MaxInFlight - Cardinality(InFlight)
    BY <1>2 DEF TickInFlight
  <2> QED
    BY <1>1, <2>1, <2>2, QueueAssumption DEF Budget
<1>3. CASE TickClaim
  <2>1. PICK S \in SUBSET Jobs : ClaimQueued(wcap, S) /\ wbatch' = S
    BY <1>3 DEF TickClaim
  <2>2. IsFiniteSet(S) /\ Cardinality(S) \in Nat /\ Cardinality(S) <= wcap
    BY <2>1, InFlightFinite, FS_Subset, FS_CardinalityType DEF ClaimQueued
  <2>3. /\ InFlight' = InFlight
        /\ wpc' = "next"
        /\ wpc = "claim"
        /\ Outstanding' = S
    BY <1>3, <2>1 DEF TickClaim, InFlight, Outstanding, rowVars, Working
  <2>4. Cardinality(InFlight \cup S) <= Cardinality(InFlight) + Cardinality(S)
    <3>1. IsFiniteSet(InFlight \cap S)
      BY <1>1, FS_Subset
    <3>2. Cardinality(InFlight \cap S) \in Nat
      BY <3>1, FS_CardinalityType
    <3>3. Cardinality(InFlight \cup S) =
           Cardinality(InFlight) + Cardinality(S) - Cardinality(InFlight \cap S)
      BY <1>1, <2>2, FS_Union
    <3> QED
      BY <1>1, <2>2, <3>2, <3>3
  <2>5. wcap \in Nat /\ Cardinality(InFlight) + wcap <= MaxInFlight
    BY <2>3 DEF Budget, TypeOK
  <2>6. Cardinality(InFlight \cup S) \in Nat
    BY <1>1, <2>2, FS_Union, FS_CardinalityType
  <2> QED
    BY <1>1, <2>2, <2>3, <2>4, <2>5, <2>6, QueueAssumption DEF Budget
<1>4. CASE ~TickInFlight /\ ~TickClaim
  <2>1. NoGrowth
    BY <1>4, NoGrowthStep
  <2>2. /\ Cardinality(InFlight' \cup Outstanding') <= Cardinality(Held)
        /\ Cardinality(InFlight' \cup Outstanding') \in Nat
    BY <1>1, <2>1, FS_Subset, FS_CardinalityType DEF NoGrowth, Held
  <2>3. wpc' = "claim" => /\ Cardinality(InFlight') \in Nat
                          /\ Cardinality(InFlight') <= Cardinality(InFlight)
    BY <1>1, <2>1, FS_Subset, FS_CardinalityType DEF NoGrowth
  <2> QED
    BY <1>1, <2>1, <2>2, <2>3, QueueAssumption
       DEF NoGrowth, Budget, Held, TypeOK
<1> QED
  BY <1>2, <1>3, <1>4

-----------------------------------------------------------------------------
(* The invariant and the theorems it gives.                                 *)

\* The invariant holds initially.
LEMMA InitIInv == Init => IInv
<1> SUFFICES ASSUME Init PROVE IInv
  OBVIOUS
<1>1. TypeOK
  BY QueueAssumption DEF Init, TypeOK, Statuses
<1>2. InFlight \cup Outstanding = {} /\ wpc # "claim"
  BY DEF Init, InFlight, InFlightStatus, Outstanding, Working
<1>3. Budget
  BY <1>2, FS_EmptySet, QueueAssumption DEF Budget
<1> QED
  BY <1>1, <1>3
     DEF Init, IInv, Cursors, Working, Polling, PollerOwns, Playable,
         ReadyIsPlayable

\* The invariant is kept by every step.
LEMMA StepIInv == IInv /\ [Next]_vars => IInv'
BY TypeStep, CursorsStep, PollerOwnsStep, PlayableStep, BudgetStep DEF IInv

\* The invariant holds in every reachable state, for every number of jobs,
\* requests, crashes and stops.
THEOREM Inductive == Spec => []IInv
BY InitIInv, StepIInv, PTL DEF Spec

\* Type correctness of the queue.
THEOREM TypeCorrect == Spec => []TypeOK
BY Inductive, PTL DEF IInv

\* At most MaxInFlight rows are ever at RunPod, although the tick reads the
\* count and the rows in two statements and submits the batch one by one while
\* the poller, the requests and crashes go on (worker.go Tick).
THEOREM BudgetAlwaysRespected == Spec => []BudgetRespected
<1>1. IInv => BudgetRespected
  <2> SUFFICES ASSUME IInv PROVE BudgetRespected
    OBVIOUS
  <2>1. IsFiniteSet(Held) /\ Cardinality(Held) \in Nat
    BY HeldFinite, FS_CardinalityType DEF IInv
  <2>2. /\ Cardinality(InFlight) <= Cardinality(Held)
        /\ Cardinality(InFlight) \in Nat
    BY <2>1, InFlightFinite, FS_Subset, FS_CardinalityType DEF Held
  <2> QED
    BY <2>1, <2>2, QueueAssumption DEF IInv, Budget, BudgetRespected, Held
<1> QED
  BY <1>1, Inductive, PTL

\* A ready row always has the complete file of its own render, whatever was
\* torn by a crash, deleted or polled twice (poller.go complete).
THEOREM ReadyAlwaysPlayable == Spec => []ReadyIsPlayable
BY Inductive, PTL DEF IInv, Playable

\* What VerdictIsFinal and WorkerSparesInFlight say of one step.
Final ==
  /\ \A j \in Jobs : status[j] \in {"ready", "failed"}
                       => status'[j] \in {status[j], "deleted"}
  /\ \A j \in InFlight : status'[j] = "failed" => pjob = j

\* Every step from a state of the invariant is of that kind.
LEMMA FinalStep ==
  ASSUME TypeOK, Cursors, PollerOwns, [Next]_vars
  PROVE  Final
<1> USE DEF TypeOK, Cursors, PollerOwns, Owned, Present, Unclaimed, Working,
            Polling, InFlight, InFlightStatus, rowVars, diskVars, runpodVars,
            workerVars, pollerVars, handlerVars, procVars
<1>1. CASE Worker
  <2>1. CASE TickInFlight BY <2>1 DEF Final, TickInFlight
  <2>2. CASE TickClaim BY <2>2 DEF Final, TickClaim, ClaimQueued
  <2>3. CASE TickNext BY <2>3 DEF Final, TickNext
  <2>4. CASE TickEnds BY <2>4 DEF Final, TickEnds, EndTick
  <2>5. CASE SubmitUnbuildable BY <2>5 DEF Final, SubmitUnbuildable, WorkerGoes
  <2>6. CASE SubmitTransient
    BY <2>6 DEF Final, SubmitTransient, WorkerGoes, AfterTransient
  <2>7. CASE SubmitRejected BY <2>7 DEF Final, SubmitRejected, WorkerGoes
  <2>8. ASSUME NEW r \in Renders, SubmitAccepted(r) PROVE Final
    BY <2>8 DEF Final, SubmitAccepted, Accept
  <2>9. ASSUME NEW r \in Renders, SubmitAnswerLost(r) PROVE Final
    BY <2>9 DEF Final, SubmitAnswerLost, Accept, WorkerGoes, AfterTransient
  <2>10. CASE RecordSubmitted
    BY <2>10
       DEF Final, RecordSubmitted, StoreSubmission, StatusForRunPod,
           MarkSubmitted, Unclaimed, EndSubmit, WorkerGoes
  <2>11. CASE RecordFails
    BY <2>11
       DEF Final, RecordFails, StoreSubmission, StatusForRunPod, MarkSubmitted,
           Unclaimed, Fault, Cancelled
  <2>12. CASE RemoveInputs BY <2>12 DEF Final, RemoveInputs, EndSubmit
  <2>13. CASE Retry
    BY <2>13 DEF Final, Retry, NoteAttempt, EndSubmit, Fault, Cancelled
  <2>14. CASE Fail BY <2>14 DEF Final, Fail, MarkFailed, EndSubmit, Fault
  <2> QED
    BY <1>1, <2>1, <2>2, <2>3, <2>4, <2>5, <2>6, <2>7, <2>8, <2>9, <2>10,
       <2>11, <2>12, <2>13, <2>14 DEF Worker
<1>2. CASE Poller
  <2>1. CASE PollList BY <2>1 DEF Final, PollList, ListPendingRunPod
  <2>2. CASE PollEnds BY <2>2 DEF Final, PollEnds
  <2>3. ASSUME NEW j \in Jobs, NEW pc \in {"next", "fail", "progress", "save"},
               Poll(j, pc)
        PROVE  Final
    BY <2>3 DEF Final, Poll
  <2>4. CASE Progress
    BY <2>4 DEF Final, Progress, UpdateStatus, EndPoll, Fault, Cancelled
  <2>5. CASE OutputUnusable BY <2>5 DEF Final, OutputUnusable, PollerGoes
  <2>6. CASE WriteBegins BY <2>6 DEF Final, WriteBegins, PollerGoes
  <2>7. CASE WriteEnds BY <2>7 DEF Final, WriteEnds, PollerGoes, Fault
  <2>8. CASE Ready
    BY <2>8 DEF Final, Ready, MarkReady, EndPoll, Fault, Cancelled
  <2>9. CASE PollerFail
    BY <2>9 DEF Final, PollerFail, MarkPollerFailed, EndPoll, Fault
  <2> QED
    BY <1>2, <2>1, <2>2, <2>3, <2>4, <2>5, <2>6, <2>7, <2>8, <2>9
       DEF Poller, PollNothing, PollRejected, PollRunning, PollFailed,
           PollCompleted
<1>3. ASSUME NEW h \in Handlers, Handler(h) PROVE Final
  <2>1. ASSUME NEW j \in Jobs, NEW e \in Models, CreateJob(h, j, e) PROVE Final
    BY <2>1 DEF Final, CreateJob, Insert
  <2>2. ASSUME NEW j \in Jobs, EnqueueAuK(h, j) PROVE Final
    BY <2>2 DEF Final, EnqueueAuK, Insert, EndRequest
  <2>3. ASSUME NEW j \in Jobs, DeleteGet(h, j) PROVE Final
    BY <2>3 DEF Final, DeleteGet
  <2>4. ASSUME NEW p \in Paths, SaveInput(h, p) PROVE Final
    BY <2>4 DEF Final, SaveInput
  <2>5. CASE EnqueueRefused(h) BY <2>5 DEF Final, EnqueueRefused, EndRequest
  <2>6. CASE DeleteRow(h) BY <2>6 DEF Final, DeleteRow
  <2>7. CASE DeleteGivesUp(h) BY <2>7 DEF Final, DeleteGivesUp, EndRequest
  <2>8. CASE Unlink(h) BY <2>8 DEF Final, Unlink, EndRequest
  <2> QED
    BY <1>3, <2>1, <2>2, <2>3, <2>4, <2>5, <2>6, <2>7, <2>8 DEF Handler
<1>4. CASE RunPod
  <2>1. ASSUME NEW r \in Renders, NEW from, NEW to \in {"running", "completed",
               "failed"}, RenderMoves(r, from, to)
        PROVE  Final
    BY <2>1 DEF Final, RenderMoves
  <2> QED
    BY <1>4, <2>1 DEF RunPod, RenderStarts, RenderCompletes, RenderFails
<1>5. CASE Process
  <2>1. CASE Crash BY <2>1 DEF Final, Crash, Forget, EndTick
  <2>2. CASE Stop BY <2>2 DEF Final, Stop
  <2>3. CASE Exit BY <2>3 DEF Final, Exit
  <2>4. CASE Restart BY <2>4 DEF Final, Restart
  <2> QED
    BY <1>5, <2>1, <2>2, <2>3, <2>4 DEF Process
<1>6. CASE UNCHANGED vars BY <1>6 DEF Final, vars
<1> QED
  BY <1>1, <1>2, <1>3, <1>4, <1>5, <1>6 DEF Next

\* A decided job changes only by being deleted, although MarkReady's WHERE
\* clause would let it overwrite a failed row: nobody but the poller decides a
\* row at RunPod (jobs.go MarkReady, MarkPollerFailed).
THEOREM VerdictAlwaysFinal == Spec => VerdictIsFinal
<1>1. IInv /\ [Next]_vars =>
         [\A j \in Jobs : status[j] \in {"ready", "failed"}
                          => status'[j] \in {status[j], "deleted"}]_vars
  BY FinalStep DEF IInv, Final
<1> QED
  BY <1>1, Inductive, PTL DEF Spec, VerdictIsFinal

\* Only the poller fails a job at RunPod: after a MarkSubmitted that reported an
\* error but was committed, MarkFailed's WHERE clause leaves the row alone
\* (worker.go submit, jobs.go MarkFailed).
THEOREM WorkerAlwaysSparesInFlight == Spec => WorkerSparesInFlight
<1>1. IInv /\ [Next]_vars =>
         [\A j \in InFlight : status'[j] = "failed" => pjob = j]_vars
  BY FinalStep DEF IInv, Final
<1> QED
  BY <1>1, Inductive, PTL DEF Spec, WorkerSparesInFlight
=============================================================================
