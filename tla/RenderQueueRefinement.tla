----------------------- MODULE RenderQueueRefinement ------------------------
(***************************************************************************)
(* The render queue implements JobLifecycle.  Every step is first reduced  *)
(* to what it does to the rows' status and RunPod id (RowsStep); those few *)
(* cases are then matched with the actions of the lifecycle, and give what *)
(* RunPod's ids are good for: no two rows share one, a row keeps its own,  *)
(* and the poller finds every row that has one.                            *)
(***************************************************************************)
EXTENDS RenderQueueProofs

\* The ids RunPod handed out are no longer free, and the one a submission is
\* about to record belongs to no row: this is why an id is never shared.
Fresh ==
  /\ \A j \in Jobs : runpodID[j] # NoRender => render[runpodID[j]] # "free"
  /\ wpc = "record" => /\ wsub \in Renders
                       /\ render[wsub] # "free"
                       /\ \A j \in Jobs : runpodID[j] # wsub

\* Every step keeps RunPod's ids apart.
LEMMA FreshStep ==
  ASSUME TypeOK, Cursors, Fresh, [Next]_vars
  PROVE  Fresh'
<1> USE QueueAssumption DEF TypeOK, Cursors, Fresh, Unclaimed, Working,
            rowVars, diskVars, runpodVars, workerVars, pollerVars, handlerVars,
            procVars
<1>1. CASE Worker
  <2>1. CASE TickInFlight BY <2>1 DEF TickInFlight
  <2>2. CASE TickClaim BY <2>2 DEF TickClaim, ClaimQueued
  <2>3. CASE TickNext BY <2>3 DEF TickNext
  <2>4. CASE TickEnds BY <2>4 DEF TickEnds, EndTick
  <2>5. CASE SubmitUnbuildable BY <2>5 DEF SubmitUnbuildable, WorkerGoes
  <2>6. CASE SubmitTransient
    BY <2>6 DEF SubmitTransient, WorkerGoes, AfterTransient
  <2>7. CASE SubmitRejected BY <2>7 DEF SubmitRejected, WorkerGoes
  <2>8. ASSUME NEW r \in Renders, SubmitAccepted(r) PROVE Fresh'
    BY <2>8 DEF SubmitAccepted, Accept
  <2>9. ASSUME NEW r \in Renders, SubmitAnswerLost(r) PROVE Fresh'
    BY <2>9 DEF SubmitAnswerLost, Accept, WorkerGoes, AfterTransient
  <2>10. CASE RecordSubmitted
    BY <2>10
       DEF RecordSubmitted, StoreSubmission, StatusForRunPod, MarkSubmitted,
           Unclaimed, EndSubmit, WorkerGoes
  <2>11. CASE RecordFails
    BY <2>11
       DEF RecordFails, StoreSubmission, StatusForRunPod, MarkSubmitted,
           Unclaimed, Fault, Cancelled
  <2>12. CASE RemoveInputs BY <2>12 DEF RemoveInputs, EndSubmit
  <2>13. CASE Retry
    BY <2>13 DEF Retry, NoteAttempt, EndSubmit, Fault, Cancelled
  <2>14. CASE Fail BY <2>14 DEF Fail, MarkFailed, EndSubmit, Fault
  <2> QED
    BY <1>1, <2>1, <2>2, <2>3, <2>4, <2>5, <2>6, <2>7, <2>8, <2>9, <2>10,
       <2>11, <2>12, <2>13, <2>14 DEF Worker
<1>2. CASE Poller
  <2>1. CASE PollList BY <2>1 DEF PollList, ListPendingRunPod
  <2>2. CASE PollEnds BY <2>2 DEF PollEnds
  <2>3. ASSUME NEW j \in Jobs, NEW pc \in {"next", "fail", "progress", "save"},
               Poll(j, pc)
        PROVE  Fresh'
    BY <2>3 DEF Poll
  <2>4. CASE Progress
    BY <2>4 DEF Progress, UpdateStatus, EndPoll, Fault, Cancelled
  <2>5. CASE OutputUnusable BY <2>5 DEF OutputUnusable, PollerGoes
  <2>6. CASE WriteBegins BY <2>6 DEF WriteBegins, PollerGoes
  <2>7. CASE WriteEnds BY <2>7 DEF WriteEnds, PollerGoes, Fault
  <2>8. CASE Ready BY <2>8 DEF Ready, MarkReady, EndPoll, Fault, Cancelled
  <2>9. CASE PollerFail
    BY <2>9 DEF PollerFail, MarkPollerFailed, EndPoll, Fault
  <2> QED
    BY <1>2, <2>1, <2>2, <2>3, <2>4, <2>5, <2>6, <2>7, <2>8, <2>9
       DEF Poller, PollNothing, PollRejected, PollRunning, PollFailed,
           PollCompleted
<1>3. ASSUME NEW h \in Handlers, Handler(h) PROVE Fresh'
  <2>1. ASSUME NEW j \in Jobs, NEW e \in Models, CreateJob(h, j, e)
        PROVE  Fresh'
    BY <2>1 DEF CreateJob, Insert
  <2>2. ASSUME NEW j \in Jobs, EnqueueAuK(h, j) PROVE Fresh'
    BY <2>2 DEF EnqueueAuK, Insert, EndRequest
  <2>3. ASSUME NEW j \in Jobs, DeleteGet(h, j) PROVE Fresh'
    BY <2>3 DEF DeleteGet
  <2>4. ASSUME NEW p \in Paths, SaveInput(h, p) PROVE Fresh'
    BY <2>4 DEF SaveInput
  <2>5. CASE EnqueueRefused(h) BY <2>5 DEF EnqueueRefused, EndRequest
  <2>6. CASE DeleteRow(h) BY <2>6 DEF DeleteRow
  <2>7. CASE DeleteGivesUp(h) BY <2>7 DEF DeleteGivesUp, EndRequest
  <2>8. CASE Unlink(h) BY <2>8 DEF Unlink, EndRequest
  <2> QED
    BY <1>3, <2>1, <2>2, <2>3, <2>4, <2>5, <2>6, <2>7, <2>8 DEF Handler
<1>4. CASE RunPod
  <2>1. ASSUME NEW r \in Renders, NEW from, NEW to \in {"running", "completed",
               "failed"}, RenderMoves(r, from, to)
        PROVE  Fresh'
    BY <2>1 DEF RenderMoves
  <2> QED
    BY <1>4, <2>1 DEF RunPod, RenderStarts, RenderCompletes, RenderFails
<1>5. CASE Process
  <2>1. CASE Crash BY <2>1 DEF Crash, Forget, EndTick
  <2>2. CASE Stop BY <2>2 DEF Stop
  <2>3. CASE Exit BY <2>3 DEF Exit
  <2>4. CASE Restart BY <2>4 DEF Restart
  <2> QED
    BY <1>5, <2>1, <2>2, <2>3, <2>4 DEF Process
<1>6. CASE UNCHANGED vars BY <1>6 DEF vars
<1> QED
  BY <1>1, <1>2, <1>3, <1>4, <1>5, <1>6 DEF Next

\* A row changes its status and nothing else the lifecycle looks at.
Move(j, from, to) ==
  /\ status[j] \in from
  /\ status' = [status EXCEPT ![j] = to]
  /\ runpodID' = runpodID

\* A claimed row that is still queued is bound to a fresh RunPod id.
Redispatch(j, r, s) ==
  /\ Unclaimed(j) /\ j \in Outstanding
  /\ \A i \in Jobs : runpodID[i] # r
  /\ status' = [status EXCEPT ![j] = s]
  /\ runpodID' = [runpodID EXCEPT ![j] = r]

\* All that any step of the system does to the rows' status and RunPod id.
RowsStep ==
  \/ UNCHANGED <<status, runpodID>>
  \/ \E j \in Jobs : \/ Move(j, {"absent"}, "queued")
                     \/ Move(j, InFlightStatus, "in_progress")
                     \/ Move(j, InFlightStatus, "ready")
                     \/ Move(j, {"queued"} \cup InFlightStatus, "failed")
                     \/ Move(j, Statuses \ {"absent", "deleted"}, "deleted")
                     \/ \E r \in Renders, s \in InFlightStatus :
                          Redispatch(j, r, s)

\* Every step of the queue is of that kind, whoever takes it.
LEMMA RowsOfStep ==
  ASSUME TypeOK, Cursors, PollerOwns, Fresh, [Next]_vars
  PROVE  RowsStep
<1> USE DEF TypeOK, Cursors, PollerOwns, Owned, Present, Unclaimed, Working,
            Polling, InFlightStatus, Fresh, rowVars, diskVars, runpodVars,
            workerVars, pollerVars, handlerVars, procVars
<1>1. CASE Worker
  <2>1. CASE TickInFlight BY <2>1 DEF RowsStep, Move, Statuses, TickInFlight
  <2>2. CASE TickClaim
    BY <2>2 DEF RowsStep, Move, Statuses, TickClaim, ClaimQueued
  <2>3. CASE TickNext BY <2>3 DEF RowsStep, Move, Statuses, TickNext
  <2>4. CASE TickEnds BY <2>4 DEF RowsStep, Move, Statuses, TickEnds, EndTick
  <2>5. CASE SubmitUnbuildable
    BY <2>5 DEF RowsStep, Move, Statuses, SubmitUnbuildable, WorkerGoes
  <2>6. CASE SubmitTransient
    BY <2>6
       DEF RowsStep, Move, Statuses, SubmitTransient, WorkerGoes,
           AfterTransient
  <2>7. CASE SubmitRejected
    BY <2>7 DEF RowsStep, Move, Statuses, SubmitRejected, WorkerGoes
  <2>8. ASSUME NEW r \in Renders, SubmitAccepted(r) PROVE RowsStep
    BY <2>8 DEF RowsStep, Move, Statuses, SubmitAccepted, Accept
  <2>9. ASSUME NEW r \in Renders, SubmitAnswerLost(r) PROVE RowsStep
    BY <2>9
       DEF RowsStep, Move, Statuses, SubmitAnswerLost, Accept, WorkerGoes,
           AfterTransient
  <2>10. CASE RecordSubmitted
    <3>1. CASE UNCHANGED <<status, runpodID>> BY <3>1 DEF RowsStep
    <3>2. CASE StoreSubmission
      <4>1. PICK s \in InFlightStatus : MarkSubmitted(wjob, wsub, s)
        BY <3>2 DEF StoreSubmission, StatusForRunPod
      <4>2. wjob \in Jobs /\ wsub \in Renders /\ wjob \in Outstanding
        BY <2>10 DEF Outstanding, RecordSubmitted
      <4>3. CASE Unclaimed(wjob)
        <5>1. Redispatch(wjob, wsub, s)
          BY <2>10, <4>1, <4>2, <4>3
             DEF Redispatch, MarkSubmitted, RecordSubmitted
        <5> QED
          BY <4>2, <5>1 DEF RowsStep
      <4>4. CASE ~Unclaimed(wjob) BY <3>1, <4>1, <4>4 DEF MarkSubmitted
      <4> QED
        BY <4>3, <4>4
    <3> QED
      BY <2>10, <3>1, <3>2 DEF RecordSubmitted
  <2>11. CASE RecordFails
    <3>1. CASE UNCHANGED <<status, runpodID>> BY <3>1 DEF RowsStep
    <3>2. CASE StoreSubmission
      <4>1. PICK s \in InFlightStatus : MarkSubmitted(wjob, wsub, s)
        BY <3>2 DEF StoreSubmission, StatusForRunPod
      <4>2. wjob \in Jobs /\ wsub \in Renders /\ wjob \in Outstanding
        BY <2>11 DEF Outstanding, RecordFails
      <4>3. CASE Unclaimed(wjob)
        <5>1. Redispatch(wjob, wsub, s)
          BY <2>11, <4>1, <4>2, <4>3 DEF Redispatch, MarkSubmitted, RecordFails
        <5> QED
          BY <4>2, <5>1 DEF RowsStep
      <4>4. CASE ~Unclaimed(wjob) BY <3>1, <4>1, <4>4 DEF MarkSubmitted
      <4> QED
        BY <4>3, <4>4
    <3> QED
      BY <2>11, <3>1, <3>2 DEF RecordFails
  <2>12. CASE RemoveInputs
    BY <2>12 DEF RowsStep, Move, Statuses, RemoveInputs, EndSubmit
  <2>13. CASE Retry
    BY <2>13
       DEF RowsStep, Move, Statuses, Retry, NoteAttempt, EndSubmit, Fault,
           Cancelled
  <2>14. CASE Fail
    BY <2>14 DEF RowsStep, Move, Statuses, Fail, MarkFailed, EndSubmit, Fault
  <2> QED
    BY <1>1, <2>1, <2>2, <2>3, <2>4, <2>5, <2>6, <2>7, <2>8, <2>9, <2>10,
       <2>11, <2>12, <2>13, <2>14 DEF Worker
<1>2. CASE Poller
  <2>1. CASE PollList
    BY <2>1 DEF RowsStep, Move, Statuses, PollList, ListPendingRunPod
  <2>2. CASE PollEnds BY <2>2 DEF RowsStep, Move, Statuses, PollEnds
  <2>3. ASSUME NEW j \in Jobs, NEW pc \in {"next", "fail", "progress", "save"},
               Poll(j, pc)
        PROVE  RowsStep
    BY <2>3 DEF RowsStep, Move, Statuses, Poll
  <2>4. CASE Progress
    BY <2>4
       DEF RowsStep, Move, Statuses, Progress, UpdateStatus, EndPoll, Fault,
           Cancelled
  <2>5. CASE OutputUnusable
    BY <2>5 DEF RowsStep, Move, Statuses, OutputUnusable, PollerGoes
  <2>6. CASE WriteBegins
    BY <2>6 DEF RowsStep, Move, Statuses, WriteBegins, PollerGoes
  <2>7. CASE WriteEnds
    BY <2>7 DEF RowsStep, Move, Statuses, WriteEnds, PollerGoes, Fault
  <2>8. CASE Ready
    BY <2>8
       DEF RowsStep, Move, Statuses, Ready, MarkReady, EndPoll, Fault,
           Cancelled
  <2>9. CASE PollerFail
    BY <2>9
       DEF RowsStep, Move, Statuses, PollerFail, MarkPollerFailed, EndPoll,
           Fault
  <2> QED
    BY <1>2, <2>1, <2>2, <2>3, <2>4, <2>5, <2>6, <2>7, <2>8, <2>9
       DEF Poller, PollNothing, PollRejected, PollRunning, PollFailed,
           PollCompleted
<1>3. ASSUME NEW h \in Handlers, Handler(h) PROVE RowsStep
  <2>1. ASSUME NEW j \in Jobs, NEW e \in Models, CreateJob(h, j, e)
        PROVE  RowsStep
    BY <2>1 DEF RowsStep, Move, Statuses, CreateJob, Insert
  <2>2. ASSUME NEW j \in Jobs, EnqueueAuK(h, j) PROVE RowsStep
    BY <2>2 DEF RowsStep, Move, Statuses, EnqueueAuK, Insert, EndRequest
  <2>3. ASSUME NEW j \in Jobs, DeleteGet(h, j) PROVE RowsStep
    BY <2>3 DEF RowsStep, Move, Statuses, DeleteGet
  <2>4. ASSUME NEW p \in Paths, SaveInput(h, p) PROVE RowsStep
    BY <2>4 DEF RowsStep, Move, Statuses, SaveInput
  <2>5. CASE EnqueueRefused(h)
    BY <2>5 DEF RowsStep, Move, Statuses, EnqueueRefused, EndRequest
  <2>6. CASE DeleteRow(h) BY <2>6 DEF RowsStep, Move, Statuses, DeleteRow
  <2>7. CASE DeleteGivesUp(h)
    BY <2>7 DEF RowsStep, Move, Statuses, DeleteGivesUp, EndRequest
  <2>8. CASE Unlink(h) BY <2>8 DEF RowsStep, Move, Statuses, Unlink, EndRequest
  <2> QED
    BY <1>3, <2>1, <2>2, <2>3, <2>4, <2>5, <2>6, <2>7, <2>8 DEF Handler
<1>4. CASE RunPod
  <2>1. ASSUME NEW r \in Renders, NEW from, NEW to \in {"running", "completed",
               "failed"}, RenderMoves(r, from, to)
        PROVE  RowsStep
    BY <2>1 DEF RowsStep, Move, Statuses, RenderMoves
  <2> QED
    BY <1>4, <2>1 DEF RunPod, RenderStarts, RenderCompletes, RenderFails
<1>5. CASE Process
  <2>1. CASE Crash BY <2>1 DEF RowsStep, Move, Statuses, Crash, Forget, EndTick
  <2>2. CASE Stop BY <2>2 DEF RowsStep, Move, Statuses, Stop
  <2>3. CASE Exit BY <2>3 DEF RowsStep, Move, Statuses, Exit
  <2>4. CASE Restart BY <2>4 DEF RowsStep, Move, Statuses, Restart
  <2> QED
    BY <1>5, <2>1, <2>2, <2>3, <2>4 DEF Process
<1>6. CASE UNCHANGED vars BY <1>6 DEF RowsStep, Move, Statuses, vars
<1> QED
  BY <1>1, <1>2, <1>3, <1>4, <1>5, <1>6 DEF Next

\* JobLifecycle has its own instance of FiniteSets; it counts the same.
LEMMA SameCardinality ==
  ASSUME NEW S
  PROVE  Lifecycle!Cardinality(S) = Cardinality(S)
BY DEF Lifecycle!Cardinality, Cardinality

\* A step of the rows is a step of the abstract lifecycle or leaves it alone:
\* only one that binds an id needs the budget.
LEMMA LifecycleStep ==
  ASSUME IInv, RowsStep
  PROVE  [Lifecycle!Next]_(Lifecycle!lifecycleVars)
<1> DEFINE phase == [j \in Jobs |-> PhaseOf(status[j])]
<1> USE DEF IInv, TypeOK, PhaseOf, InFlightStatus, Statuses
<1>1. CASE UNCHANGED <<status, runpodID>> BY <1>1 DEF Lifecycle!lifecycleVars
<1>2. ASSUME NEW j \in Jobs, Move(j, {"absent"}, "queued")
      PROVE  Lifecycle!Arrive(j)
  BY <1>2 DEF Move, Lifecycle!Arrive, Lifecycle!Move
<1>3. ASSUME NEW j \in Jobs, Move(j, InFlightStatus, "in_progress")
      PROVE  UNCHANGED Lifecycle!lifecycleVars
  BY <1>3 DEF Move, Lifecycle!lifecycleVars
<1>4. ASSUME NEW j \in Jobs, Move(j, InFlightStatus, "ready")
      PROVE  Lifecycle!Finish(j)
  BY <1>4 DEF Move, Lifecycle!Finish, Lifecycle!Move
<1>5. ASSUME NEW j \in Jobs, Move(j, {"queued"} \cup InFlightStatus, "failed")
      PROVE  Lifecycle!Fail(j)
  BY <1>5 DEF Move, Lifecycle!Fail, Lifecycle!Move
<1>6. ASSUME NEW j \in Jobs, Move(j, Statuses \ {"absent", "deleted"},
             "deleted")
      PROVE  Lifecycle!Remove(j)
  BY <1>6 DEF Move, Lifecycle!Remove, Lifecycle!Move
<1>7. ASSUME NEW j \in Jobs, NEW r \in Renders, NEW s \in InFlightStatus,
             Redispatch(j, r, s)
      PROVE  Lifecycle!Dispatch(j, r)
  <2>1. Lifecycle!Active = InFlight
    BY DEF Lifecycle!Active, InFlight
  <2>2. Cardinality(InFlight) < MaxInFlight
    <3>1. InFlight \subseteq Held /\ j \in Held /\ j \notin InFlight
      BY <1>7 DEF Redispatch, Held, InFlight, Unclaimed
    <3>2. /\ IsFiniteSet(Held)
          /\ Cardinality(Held) \in Nat
          /\ Cardinality(Held) <= MaxInFlight
      BY HeldFinite, FS_CardinalityType DEF Budget, Held
    <3>3. /\ Cardinality(InFlight) \in Nat
          /\ Cardinality(InFlight) <= Cardinality(Held)
          /\ Cardinality(InFlight) # Cardinality(Held)
      BY <3>1, <3>2, InFlightFinite, FS_Subset, FS_CardinalityType
    <3> QED
      BY <3>2, <3>3, QueueAssumption
  <2>3. phase[j] = "waiting" /\ j \in Jobs
    BY <1>7 DEF Redispatch, Unclaimed
  <2>4. [i \in Jobs |-> PhaseOf(status'[i])] = [phase EXCEPT ![j] = "active"]
    BY <1>7 DEF Redispatch
  <2>5. /\ \A i \in Jobs : runpodID[i] # r
        /\ runpodID' = [runpodID EXCEPT ![j] = r]
    BY <1>7 DEF Redispatch
  <2> QED
    BY <2>1, <2>2, <2>3, <2>4, <2>5, SameCardinality
       DEF Lifecycle!Dispatch, Lifecycle!Move
<1> QED
  BY <1>1, <1>2, <1>3, <1>4, <1>5, <1>6, <1>7 DEF RowsStep, Lifecycle!Next

\* The render queue implements the lifecycle: budgeted dispatch to a RunPod id no
\* job ever had, one verdict, removal for good, through every crash and stop.
THEOREM QueueImplementsLifecycle == Spec => ImplementsLifecycle
<1>1. Init => Lifecycle!Init /\ Fresh
  BY DEF Init, Lifecycle!Init, PhaseOf, InFlightStatus, Fresh
<1>2. IInv /\ Fresh /\ [Next]_vars => Fresh'
  BY FreshStep DEF IInv
<1>3. IInv /\ Fresh /\ [Next]_vars
        => [Lifecycle!Next]_(Lifecycle!lifecycleVars)
  BY RowsOfStep, LifecycleStep DEF IInv
<1> QED
  BY <1>1, <1>2, <1>3, Inductive, PTL
     DEF Spec, ImplementsLifecycle, Lifecycle!Spec
-----------------------------------------------------------------------------
(* What the ids are good for.                                               *)

\* The partial unique index on runpod_id (db.go) never refuses an UPDATE: no
\* two rows ever name the same render, deleted ones included.
IdsApart ==
  \A i, j \in Jobs : i # j /\ runpodID[i] # NoRender => runpodID[i] # runpodID[j]

\* A row at RunPod has an id to poll.
Bound == \A j \in InFlight : runpodID[j] # NoRender

\* An id, once recorded, is the row's for good.
IdKept == \A j \in Jobs : runpodID[j] # NoRender => runpodID'[j] = runpodID[j]

\* Only a fresh id is ever bound, and only to a row without one.
LEMMA IdsStep ==
  ASSUME TypeOK, IdsApart, Bound, RowsStep
  PROVE  IdsApart' /\ Bound' /\ IdKept
<1> USE QueueAssumption DEF TypeOK, IdsApart, Bound, IdKept, InFlight,
                            InFlightStatus, Statuses
<1>1. CASE UNCHANGED <<status, runpodID>> BY <1>1
<1>2. ASSUME NEW j \in Jobs, NEW from, NEW to \in Statuses, Move(j, from, to),
             to \in InFlightStatus => from = InFlightStatus
      PROVE  IdsApart' /\ Bound' /\ IdKept
  <2>1. runpodID' = runpodID /\ status' = [status EXCEPT ![j] = to] /\ status[j] \in from
    BY <1>2 DEF Move
  <2>2. IdsApart' /\ IdKept
    BY <2>1
  <2>3. Bound'
    BY <1>2, <2>1
  <2> QED BY <2>2, <2>3
<1>3. ASSUME NEW j \in Jobs, NEW r \in Renders, NEW s \in InFlightStatus,
             Redispatch(j, r, s)
      PROVE  IdsApart' /\ Bound' /\ IdKept
  <2>1. /\ runpodID' = [runpodID EXCEPT ![j] = r]
        /\ status' = [status EXCEPT ![j] = s]
        /\ runpodID[j] = NoRender
        /\ \A i \in Jobs : runpodID[i] # r
    BY <1>3 DEF Redispatch, Unclaimed
  <2> QED BY <2>1
<1> QED
  BY <1>1, <1>2, <1>3 DEF RowsStep

\* The invariant, with the ids.
LEMMA IdsInductive == Spec => [](IInv /\ Fresh /\ IdsApart /\ Bound)
<1>1. Init => Fresh /\ IdsApart /\ Bound
  BY DEF Init, Fresh, IdsApart, Bound, InFlight, InFlightStatus
<1>2. IInv /\ Fresh /\ IdsApart /\ Bound /\ [Next]_vars
        => Fresh' /\ IdsApart' /\ Bound'
  BY FreshStep, RowsOfStep, IdsStep DEF IInv
<1> QED BY <1>1, <1>2, Inductive, PTL DEF Spec

\* No two rows ever share a RunPod id, so that a render's output goes to one job
\* and the unique index never turns a recorded submission into an error
\* (db.go, jobs.go MarkSubmitted).
THEOREM IdsStayApart == Spec => []IdsApart
BY IdsInductive, PTL

\* A recorded id is never replaced, whatever is submitted again after a lost
\* answer, a crash or a stop: "a duplicate submission can never overwrite the
\* first" (README.md:200, jobs.go MarkSubmitted).
THEOREM IdNeverReplaced == Spec => [][IdKept]_vars
<1>1. IInv /\ Fresh /\ IdsApart /\ Bound /\ [Next]_vars => IdKept
  BY RowsOfStep, IdsStep DEF IInv
<1> QED BY <1>1, IdsInductive, PTL DEF Spec

\* With a budget within the poller's limit no row at RunPod is ever left out of
\* a pass (poller.go Tick): the budget bounds the rows there are to list.
THEOREM PollerAlwaysSeesAll == Spec => PollerSeesAll
<1>1. ASSUME TypeOK, BudgetRespected, Bound, MaxInFlight <= PollLimit, PollList
      PROVE  InFlight \subseteq pbatch'
  <2>1. PICK S \in SUBSET Jobs : ListPendingRunPod(PollLimit, S) /\ pbatch' = S
    BY <1>1 DEF PollList
  <2>2. InFlight = {j \in InFlight : runpodID[j] # NoRender}
    BY <1>1 DEF Bound
  <2>3. CASE S = InFlight BY <2>1, <2>3
  <2>4. CASE S # InFlight
    <3>1. S \subseteq InFlight /\ Cardinality(S) = PollLimit
      BY <2>1, <2>2, <2>4, Zenon DEF ListPendingRunPod
    <3>2. Cardinality(S) < Cardinality(InFlight) /\ Cardinality(InFlight) \in Nat
      BY <2>4, <3>1, InFlightFinite, FS_Subset, FS_CardinalityType, QueueAssumption
    <3> QED BY <1>1, <3>1, <3>2, QueueAssumption DEF BudgetRespected
  <2> QED BY <2>3, <2>4
<1>2. TypeOK /\ BudgetRespected /\ Bound /\ [Next]_vars
        => [MaxInFlight <= PollLimit /\ PollList => InFlight \subseteq pbatch']_vars
  BY <1>1
<1> QED
  BY <1>2, IdsInductive, TypeCorrect, BudgetAlwaysRespected, PTL DEF Spec, PollerSeesAll
-----------------------------------------------------------------------------
(* The lifecycle is worth implementing: a queue of which only its rows'     *)
(* types and JobLifecycle are known keeps the budget, its verdicts and its  *)
(* ids.                                                                     *)

Decided ==
  \A j \in Jobs : status[j] \in {"ready", "failed"} => status'[j] \in {status[j], "deleted"}

\* A job that is not yet at RunPod has no id.
Early == {"absent", "waiting"}
Unborn == \A j \in Jobs : PhaseOf(status[j]) \in Early => runpodID[j] = NoRender

\* A change of phases is a change of statuses.
LEMMA PhasesTell ==
  ASSUME TypeOK, NEW j \in Jobs
  PROVE  /\ PhaseOf(status[j]) = "active" <=> j \in InFlight
         /\ PhaseOf(status[j]) = "removed" <=> status[j] = "deleted"
         /\ \A s \in {"ready", "failed"} : PhaseOf(status[j]) = s <=> status[j] = s
BY DEF TypeOK, PhaseOf, InFlight, InFlightStatus, Statuses

\* What a job's move from one phase to another leaves of the others.
LEMMA LifecycleMove ==
  ASSUME TypeOK, TypeOK', NEW j \in Jobs, NEW from, NEW to, Lifecycle!Move(j, from, to)
  PROVE  /\ PhaseOf(status[j]) \in from /\ PhaseOf(status'[j]) = to
         /\ \A i \in Jobs : i # j => PhaseOf(status'[i]) = PhaseOf(status[i])
<1> DEFINE phase == [i \in Jobs |-> PhaseOf(status[i])]
           next == [i \in Jobs |-> PhaseOf(status'[i])]
<1>1. phase[j] \in from /\ next = [phase EXCEPT ![j] = to]
  BY DEF Lifecycle!Move, PhaseOf
<1>2. \A i \in Jobs : next[i] = IF i = j THEN to ELSE phase[i]
  BY <1>1
<1> QED BY <1>1, <1>2

LEMMA LifecycleKeeps ==
  ASSUME TypeOK, TypeOK', BudgetRespected, IdsApart, Unborn,
         [Lifecycle!Next]_(Lifecycle!lifecycleVars)
  PROVE  BudgetRespected' /\ IdsApart' /\ Unborn' /\ Decided /\ IdKept
<1> USE QueueAssumption
<1>1. /\ IsFiniteSet(Jobs) /\ IsFiniteSet(InFlight)
      /\ Cardinality(InFlight) \in Nat /\ Cardinality(InFlight) <= MaxInFlight
  BY InFlightFinite, FS_CardinalityType DEF BudgetRespected
<1>2. ASSUME InFlight' \subseteq InFlight PROVE BudgetRespected'
  <2>1. Cardinality(InFlight') <= Cardinality(InFlight) /\ Cardinality(InFlight') \in Nat
    BY <1>1, <1>2, FS_Subset, FS_CardinalityType
  <2> QED BY <1>1, <2>1 DEF BudgetRespected
<1>3. ASSUME runpodID' = runpodID PROVE IdsApart' /\ IdKept
  BY <1>3 DEF IdsApart, IdKept
<1>4. ASSUME NEW j \in Jobs, NEW from, NEW to, Lifecycle!Move(j, from, to),
             "ready" \in from \/ "failed" \in from => to = "removed"
      PROVE  /\ Decided
             /\ to # "active" => InFlight' \subseteq InFlight
             /\ InFlight' \subseteq InFlight \cup {j}
             /\ (runpodID' = runpodID /\ (to \in Early => from \subseteq Early)) => Unborn'
  <2>1. /\ PhaseOf(status[j]) \in from /\ PhaseOf(status'[j]) = to
        /\ \A i \in Jobs : i # j => PhaseOf(status'[i]) = PhaseOf(status[i])
    BY <1>4, LifecycleMove
  <2>2. /\ \A i \in Jobs : /\ PhaseOf(status[i]) = "active" <=> i \in InFlight
                           /\ PhaseOf(status[i]) = "removed" <=> status[i] = "deleted"
                           /\ \A s \in {"ready", "failed"} : PhaseOf(status[i]) = s <=> status[i] = s
        /\ \A i \in Jobs : /\ PhaseOf(status'[i]) = "active" <=> i \in InFlight'
                           /\ PhaseOf(status'[i]) = "removed" <=> status'[i] = "deleted"
                           /\ \A s \in {"ready", "failed"} : PhaseOf(status'[i]) = s <=> status'[i] = s
    <3>1. \A i \in Jobs : /\ PhaseOf(status[i]) = "active" <=> i \in InFlight
                          /\ PhaseOf(status[i]) = "removed" <=> status[i] = "deleted"
                          /\ \A s \in {"ready", "failed"} : PhaseOf(status[i]) = s <=> status[i] = s
      BY PhasesTell
    <3>2. \A i \in Jobs : /\ PhaseOf(status'[i]) = "active" <=> i \in InFlight'
                          /\ PhaseOf(status'[i]) = "removed" <=> status'[i] = "deleted"
                          /\ \A s \in {"ready", "failed"} : PhaseOf(status'[i]) = s <=> status'[i] = s
      BY DEF TypeOK, PhaseOf, InFlight, InFlightStatus, Statuses
    <3> QED BY <3>1, <3>2
  <2>3. InFlight' \subseteq Jobs
    BY DEF InFlight
  <2>4. Decided
    <3> SUFFICES ASSUME NEW i \in Jobs, NEW s \in {"ready", "failed"}, status[i] = s
                 PROVE  status'[i] \in {s, "deleted"}
      BY DEF Decided
    <3>1. CASE i # j BY <2>1, <2>2, <3>1
    <3>2. CASE i = j BY <1>4, <2>1, <2>2, <3>2
    <3> QED BY <3>1, <3>2
  <2>5. ASSUME runpodID' = runpodID, to \in Early => from \subseteq Early
        PROVE  Unborn'
    BY <2>1, <2>5 DEF Unborn
  <2> QED BY <2>1, <2>2, <2>3, <2>4, <2>5
<1>5. ASSUME NEW j \in Jobs, Lifecycle!Arrive(j) \/ Lifecycle!Finish(j)
               \/ Lifecycle!Fail(j) \/ Lifecycle!Remove(j)
      PROVE  BudgetRespected' /\ IdsApart' /\ Unborn' /\ Decided /\ IdKept
  <2>1. runpodID' = runpodID
    BY <1>5 DEF Lifecycle!Arrive, Lifecycle!Finish, Lifecycle!Fail, Lifecycle!Remove
  <2>2. CASE Lifecycle!Arrive(j)
    BY <1>2, <1>3, <1>4, <2>1, <2>2 DEF Lifecycle!Arrive, Early
  <2>3. CASE Lifecycle!Finish(j)
    BY <1>2, <1>3, <1>4, <2>1, <2>3 DEF Lifecycle!Finish, Early
  <2>4. CASE Lifecycle!Fail(j)
    BY <1>2, <1>3, <1>4, <2>1, <2>4 DEF Lifecycle!Fail, Early
  <2>5. CASE Lifecycle!Remove(j)
    BY <1>2, <1>3, <1>4, <2>1, <2>5 DEF Lifecycle!Remove, Early
  <2> QED BY <1>5, <2>2, <2>3, <2>4, <2>5
<1>6. ASSUME NEW j \in Jobs, NEW r \in Renders, Lifecycle!Dispatch(j, r)
      PROVE  BudgetRespected' /\ IdsApart' /\ Unborn' /\ Decided /\ IdKept
  <2>1. /\ Lifecycle!Move(j, {"waiting"}, "active")
        /\ \A i \in Jobs : runpodID[i] # r
        /\ runpodID' = [runpodID EXCEPT ![j] = r]
        /\ Lifecycle!Cardinality(Lifecycle!Active) < MaxInFlight
    BY <1>6 DEF Lifecycle!Dispatch
  <2>2. Lifecycle!Active = InFlight
    BY PhasesTell DEF Lifecycle!Active, InFlight
  <2>3. Cardinality(InFlight) < MaxInFlight
    BY <2>1, <2>2, SameCardinality
  <2>4. Decided /\ InFlight' \subseteq InFlight \cup {j}
    BY <1>4, <2>1
  <2>5. BudgetRespected'
    <3>1. /\ IsFiniteSet(InFlight \cup {j})
          /\ Cardinality(InFlight \cup {j}) <= Cardinality(InFlight) + 1
          /\ Cardinality(InFlight \cup {j}) \in Nat
      <4>1. /\ IsFiniteSet(InFlight \cup {j})
            /\ \/ Cardinality(InFlight \cup {j}) = Cardinality(InFlight)
               \/ Cardinality(InFlight \cup {j}) = Cardinality(InFlight) + 1
        BY <1>1, FS_AddElement
      <4> QED BY <1>1, <4>1
    <3>2. Cardinality(InFlight') <= Cardinality(InFlight \cup {j})
             /\ Cardinality(InFlight') \in Nat
      BY <2>4, <3>1, FS_Subset, FS_CardinalityType
    <3> QED BY <1>1, <2>3, <3>1, <3>2 DEF BudgetRespected
  <2>6. runpodID[j] = NoRender
    BY <2>1, LifecycleMove DEF Unborn, Early
  <2>7. IdsApart' /\ IdKept
    BY <2>1, <2>6 DEF IdsApart, IdKept, TypeOK
  <2>8. Unborn'
    <3>1. /\ PhaseOf(status'[j]) = "active"
          /\ \A i \in Jobs : i # j => PhaseOf(status'[i]) = PhaseOf(status[i])
      BY <2>1, LifecycleMove
    <3> QED BY <2>1, <3>1 DEF Unborn, Early, TypeOK
  <2> QED BY <2>4, <2>5, <2>7, <2>8
<1>7. CASE UNCHANGED Lifecycle!lifecycleVars
  <2>1. /\ runpodID' = runpodID
        /\ [j \in Jobs |-> PhaseOf(status'[j])] = [j \in Jobs |-> PhaseOf(status[j])]
    BY <1>7 DEF Lifecycle!lifecycleVars, PhaseOf
  <2>2. \A j \in Jobs : PhaseOf(status'[j]) = PhaseOf(status[j])
    <3> DEFINE phase == [j \in Jobs |-> PhaseOf(status[j])]
               next == [j \in Jobs |-> PhaseOf(status'[j])]
    <3>1. \A j \in Jobs : next[j] = phase[j]
      BY <2>1
    <3> QED BY <3>1
  <2>3. InFlight' = InFlight /\ Decided
    <3>1. \A j \in Jobs : /\ PhaseOf(status[j]) = "active" <=> j \in InFlight
                          /\ \A t \in {"ready", "failed"} : PhaseOf(status[j]) = t <=> status[j] = t
      BY PhasesTell
    <3>2. \A j \in Jobs : /\ PhaseOf(status'[j]) = "active" <=> j \in InFlight'
                          /\ \A t \in {"ready", "failed"} : PhaseOf(status'[j]) = t <=> status'[j] = t
      BY DEF TypeOK, PhaseOf, InFlight, InFlightStatus, Statuses
    <3>3. InFlight' \subseteq Jobs /\ InFlight \subseteq Jobs
      BY DEF InFlight
    <3> QED BY <2>2, <3>1, <3>2, <3>3 DEF Decided
  <2> QED BY <1>2, <1>3, <2>1, <2>2, <2>3 DEF Unborn
<1> QED BY <1>5, <1>6, <1>7 DEF Lifecycle!Next

\* Whatever implements the lifecycle with the statuses of the schema respects
\* the budget, decides each job once, keeps RunPod's ids apart and each with the
\* job it was first recorded for.
THEOREM LifecycleSuffices ==
  ImplementsLifecycle /\ []TypeOK
    => []BudgetRespected /\ VerdictIsFinal /\ []IdsApart /\ [][IdKept]_vars
<1>1. TypeOK /\ Lifecycle!Init => BudgetRespected /\ IdsApart /\ Unborn
  <2> SUFFICES ASSUME TypeOK, Lifecycle!Init
               PROVE  BudgetRespected /\ IdsApart /\ Unborn
    OBVIOUS
  <2>1. runpodID = [j \in Jobs |-> NoRender]
    BY DEF Lifecycle!Init
  <2>2. \A j \in Jobs : PhaseOf(status[j]) = "absent"
    <3>1. [j \in Jobs |-> PhaseOf(status[j])] = [j \in Jobs |-> "absent"]
      BY DEF Lifecycle!Init, PhaseOf
    <3> QED BY <3>1
  <2>3. InFlight = {}
    BY <2>2, PhasesTell DEF InFlight
  <2> QED
    BY <2>1, <2>3, FS_EmptySet, QueueAssumption DEF BudgetRespected, IdsApart, Unborn
<1>2. TypeOK /\ TypeOK' /\ BudgetRespected /\ IdsApart /\ Unborn
        /\ [Lifecycle!Next]_(Lifecycle!lifecycleVars)
        => BudgetRespected' /\ IdsApart' /\ Unborn' /\ [Decided]_vars /\ [IdKept]_vars
  BY LifecycleKeeps
<1>3. [][Decided]_vars => VerdictIsFinal
  BY DEF Decided, VerdictIsFinal
<1> QED
  BY <1>1, <1>2, <1>3, PTL DEF ImplementsLifecycle, Lifecycle!Spec
=============================================================================
