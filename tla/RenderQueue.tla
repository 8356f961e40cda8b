---------------------------- MODULE RenderQueue -----------------------------
(***************************************************************************)
(* Timbre's render queue: the jobs table, the submission worker and the    *)
(* status poller (one goroutine each), the HTTP handlers that create and   *)
(* delete jobs, the audio files on disk, RunPod, and the process itself.   *)
(*                                                                         *)
(* The rows, the files and RunPod's renders survive a crash; everything    *)
(* the goroutines hold (the batch a tick read, the RunPod id a submission  *)
(* returned, the row a delete handler loaded) does not.  A database        *)
(* statement is one step; the Go code between two statements, two files or *)
(* two requests is where the other actors come in.                         *)
(***************************************************************************)
EXTENDS Naturals, FiniteSets

CONSTANTS
  MaxJobs,       \* ids handed out by AUTOINCREMENT in one behaviour (bound)
  Renders,       \* RunPod's job ids (bound)
  NoRender,      \* a NULL runpod_id
  Paths,         \* names os.CreateTemp may return for AuK inputs (bound)
  NoPath,        \* a job that owns no input file
  Models,        \* the engines a job without input files is created for
  AuK,           \* the engine whose jobs may own input files
  Handlers,      \* concurrent HTTP requests (bound)
  MaxInFlight,   \* TIMBRE_MAX_IN_FLIGHT
  MaxAttempts,   \* DefaultMaxAttempts
  PollLimit,     \* the LIMIT of ListPendingRunPod
  MaxFaults,     \* crashes and failed database or disk writes (bound)
  MaxStops       \* graceful stops (bound)

Jobs == 1..MaxJobs
None == "none"     \* no file on disk
Torn == "torn"     \* a file truncated by WriteFile and not yet written

ASSUME QueueAssumption ==
  /\ MaxJobs \in Nat
  /\ MaxInFlight \in Nat \ {0}
  /\ MaxAttempts \in Nat \ {0}
  /\ PollLimit \in Nat \ {0}
  /\ MaxFaults \in Nat
  /\ MaxStops \in Nat
  /\ NoRender \notin Renders
  /\ NoPath \notin Paths
  /\ None \notin Renders
  /\ Torn \notin Renders

VARIABLES
  status, runpodID, attempts, model, inputOf, \* the jobs table, one row per id
  audio,     \* renders/job_<id>.<ext>: None, Torn or the render it holds
  inputs,    \* the AuK input files on disk
  render, renderOf,                            \* RunPod's side of each id
  wpc, wcap, wbatch, wseen, wjob, wsub,        \* the submission worker
  ppc, pbatch, pseen, pjob,                    \* the status poller
  hpc, hjob, hpath, haudio,                    \* the HTTP handlers
  proc,      \* the process: "up", "stopping" (ctx cancelled) or "down"
  faults, stops

rowVars     == <<status, runpodID, attempts, model, inputOf>>
diskVars    == <<audio, inputs>>
runpodVars  == <<render, renderOf>>
workerVars  == <<wpc, wcap, wbatch, wseen, wjob, wsub>>
pollerVars  == <<ppc, pbatch, pseen, pjob>>
handlerVars == <<hpc, hjob, hpath, haudio>>
procVars    == <<proc, faults, stops>>
vars == <<rowVars, diskVars, runpodVars, workerVars, pollerVars, handlerVars,
          procVars>>

Statuses == {"absent", "queued", "submitted", "in_progress", "ready",
             "failed", "deleted"}
Present(j) == status[j] \notin {"absent", "deleted"}
InFlightStatus == {"submitted", "in_progress"}

TypeOK ==
  /\ status \in [Jobs -> Statuses]
  /\ runpodID \in [Jobs -> Renders \cup {NoRender}]
  /\ attempts \in [Jobs -> Nat]
  /\ model \in [Jobs -> Models \cup {AuK}]
  /\ inputOf \in [Jobs -> Paths \cup {NoPath}]
  /\ audio \in [Jobs -> Renders \cup {None, Torn}]
  /\ inputs \subseteq Paths
  /\ render \in [Renders -> {"free", "queued", "running", "completed", "failed"}]
  /\ renderOf \in [Renders -> Jobs \cup {0}]
  /\ wpc \in {"idle", "claim", "next", "submit", "record", "retry", "fail", "cleanup"}
  /\ wcap \in Nat
  /\ wbatch \subseteq Jobs
  /\ wseen \in [Jobs -> Nat]
  /\ wjob \in Jobs \cup {0}
  /\ wsub \in Renders \cup {NoRender}
  /\ ppc \in {"idle", "next", "progress", "fail", "save", "write", "ready"}
  /\ pbatch \subseteq Jobs
  /\ pseen \in [Jobs -> Renders \cup {NoRender}]
  /\ pjob \in Jobs \cup {0}
  /\ hpc \in [Handlers -> {"idle", "enqueue", "delete", "unlink"}]
  /\ hjob \in [Handlers -> Jobs \cup {0}]
  /\ hpath \in [Handlers -> Paths \cup {NoPath}]
  /\ haudio \in [Handlers -> BOOLEAN]
  /\ proc \in {"up", "stopping", "down"}
  /\ faults \in 0..MaxFaults
  /\ stops \in 0..MaxStops

Init ==
  /\ status = [j \in Jobs |-> "absent"]
  /\ runpodID = [j \in Jobs |-> NoRender]
  /\ attempts = [j \in Jobs |-> 0]
  /\ model = [j \in Jobs |-> AuK]
  /\ inputOf = [j \in Jobs |-> NoPath]
  /\ audio = [j \in Jobs |-> None]
  /\ inputs = {}
  /\ render = [r \in Renders |-> "free"]
  /\ renderOf = [r \in Renders |-> 0]
  /\ wpc = "idle" /\ wcap = 0 /\ wbatch = {} /\ wseen = [j \in Jobs |-> 0]
  /\ wjob = 0 /\ wsub = NoRender
  /\ ppc = "idle" /\ pbatch = {} /\ pseen = [j \in Jobs |-> NoRender] /\ pjob = 0
  /\ hpc = [h \in Handlers |-> "idle"] /\ hjob = [h \in Handlers |-> 0]
  /\ hpath = [h \in Handlers |-> NoPath] /\ haudio = [h \in Handlers |-> FALSE]
  /\ proc = "up" /\ faults = 0 /\ stops = 0

-----------------------------------------------------------------------------
(* The statements of internal/jobs.  Each is one UPDATE, whose WHERE clause *)
(* makes it a no-op on a row that moved on or was deleted.                  *)

InFlight == {j \in Jobs : status[j] \in InFlightStatus}

Unclaimed(j) == status[j] = "queued" /\ runpodID[j] = NoRender

\* ORDER BY created_at, id LIMIT limit: the oldest rows, and all there are if
\* they are fewer than the limit.
ClaimQueued(limit, S) ==
  LET ready == {j \in Jobs : Unclaimed(j)}
  IN  /\ S \subseteq ready
      /\ Cardinality(S) <= limit
      /\ S = ready \/ Cardinality(S) = limit
      /\ \A i \in ready, j \in S : i < j => i \in S

\* Deviation: in_progress rows are forgotten.
ListSubmittedOnly(limit, S) ==
  S = {j \in Jobs : status[j] = "submitted"} /\ Cardinality(S) <= limit

\* Deviation: any row with a RunPod id is polled, decided or not.
ListAnyWithRunPodID(limit, S) ==
  S = {j \in Jobs : Present(j) /\ runpodID[j] # NoRender} /\ Cardinality(S) <= limit

\* ORDER BY updated_at, id LIMIT limit.  updated_at has a resolution of one
\* second and is not modelled, so any rows may come first.
ListPendingRunPod(limit, S) ==
  LET pending == {j \in InFlight : runpodID[j] # NoRender}
  IN  /\ S \subseteq pending
      /\ Cardinality(S) <= limit
      /\ S = pending \/ Cardinality(S) = limit

\* Deviation: an upsert, which brings a deleted row back.
UpsertSubmitted(j, r, s) ==
  /\ status' = [status EXCEPT ![j] = s]
  /\ runpodID' = [runpodID EXCEPT ![j] = r]
  /\ UNCHANGED <<attempts, model, inputOf>>

\* What POST /run answered about the render it took: waiting, or started.
StatusForRunPod(answer) ==
  IF answer = "IN_PROGRESS" THEN "in_progress" ELSE "submitted"

MarkSubmitted(j, r, s) ==
  /\ status' = [status EXCEPT ![j] = IF Unclaimed(j) THEN s ELSE @]
  /\ runpodID' = [runpodID EXCEPT ![j] = IF Unclaimed(j) THEN r ELSE @]
  /\ UNCHANGED <<attempts, model, inputOf>>

\* Deviation: the WHERE clause does not look at the status.
MarkAnyFailed(j) ==
  /\ status' = [status EXCEPT ![j] = IF Present(j) THEN "failed" ELSE @]
  /\ attempts' = [attempts EXCEPT ![j] = @ + 1]
  /\ UNCHANGED <<runpodID, model, inputOf>>

MarkFailed(j) ==
  /\ status' = [status EXCEPT ![j] = IF @ = "queued" THEN "failed" ELSE @]
  /\ attempts' = [attempts EXCEPT ![j] = IF status[j] = "queued" THEN @ + 1 ELSE @]
  /\ UNCHANGED <<runpodID, model, inputOf>>

NoteAttempt(j) ==
  /\ attempts' = [attempts EXCEPT ![j] = IF status[j] = "queued" THEN @ + 1 ELSE @]
  /\ UNCHANGED <<status, runpodID, model, inputOf>>

UpdateStatus(j, s) ==
  /\ status' = [status EXCEPT ![j] =
       IF Present(j) /\ @ \notin {"ready", "failed"} THEN s ELSE @]
  /\ UNCHANGED <<runpodID, attempts, model, inputOf>>

MarkReady(j) ==
  /\ status' = [status EXCEPT ![j] = IF Present(j) THEN "ready" ELSE @]
  /\ UNCHANGED <<runpodID, attempts, model, inputOf>>

MarkPollerFailed(j) ==
  /\ status' = [status EXCEPT ![j] = IF @ \in InFlightStatus THEN "failed" ELSE @]
  /\ UNCHANGED <<runpodID, attempts, model, inputOf>>

\* A write that reports an error and changed nothing: the database is locked
\* or full (a fault), or the statement carried the cancelled context.
Fault == faults < MaxFaults /\ faults' = faults + 1 /\ UNCHANGED <<proc, stops>>
Cancelled == proc = "stopping" /\ UNCHANGED procVars
Runs == proc # "down"

-----------------------------------------------------------------------------
(* The HTTP handlers.  Shutdown stops accepting requests and lets those     *)
(* being served finish, so a new one starts only while the process is up.   *)

Insert(j, e, p) ==
  /\ status[j] = "absent"
  /\ \A i \in 1..(j - 1) : status[i] # "absent"
  /\ status' = [status EXCEPT ![j] = "queued"]
  /\ model' = [model EXCEPT ![j] = e]
  /\ inputOf' = [inputOf EXCEPT ![j] = p]
  /\ UNCHANGED <<runpodID, attempts>>

EndRequest(h) ==
  /\ hpc' = [hpc EXCEPT ![h] = "idle"]
  /\ hjob' = [hjob EXCEPT ![h] = 0]
  /\ hpath' = [hpath EXCEPT ![h] = NoPath]
  /\ haudio' = [haudio EXCEPT ![h] = FALSE]

\* handleCreateJob for a job without input files: one INSERT.
CreateJob(h, j, e) ==
  /\ proc = "up" /\ hpc[h] = "idle"
  /\ Insert(j, e, NoPath)
  /\ UNCHANGED <<diskVars, runpodVars, workerVars, pollerVars, handlerVars, procVars>>

\* saveAuKInput: the file is on disk before any row names it.  CreateTemp's
\* random name is taken to be one nothing refers to.
SaveInput(h, p) ==
  /\ proc = "up" /\ hpc[h] = "idle"
  /\ p \notin inputs
  /\ \A j \in Jobs : inputOf[j] # p
  /\ \A g \in Handlers : hpath[g] # p
  /\ inputs' = inputs \cup {p}
  /\ hpc' = [hpc EXCEPT ![h] = "enqueue"]
  /\ hpath' = [hpath EXCEPT ![h] = p]
  /\ UNCHANGED <<audio, hjob, haudio, rowVars, runpodVars, workerVars, pollerVars, procVars>>

EnqueueAuK(h, j) ==
  /\ Runs /\ hpc[h] = "enqueue"
  /\ Insert(j, AuK, hpath[h])
  /\ EndRequest(h)
  /\ UNCHANGED <<diskVars, runpodVars, workerVars, pollerVars, procVars>>

\* Deviation: no deferred removePaths.
RefusedKeepsInputs(h) ==
  /\ Runs /\ hpc[h] = "enqueue"
  /\ EndRequest(h)
  /\ UNCHANGED <<diskVars, rowVars, runpodVars, workerVars, pollerVars, procVars>>

\* Enqueue refuses the job or the INSERT fails: keepInputs stays false.
EnqueueRefused(h) ==
  /\ Runs /\ hpc[h] = "enqueue"
  /\ inputs' = inputs \ {hpath[h]}
  /\ EndRequest(h)
  /\ UNCHANGED <<audio, rowVars, runpodVars, workerVars, pollerVars, procVars>>

\* Store.Delete loads the row first; its paths are the ones unlinked later.
DeleteGet(h, j) ==
  /\ proc = "up" /\ hpc[h] = "idle"
  /\ Present(j)
  /\ hpc' = [hpc EXCEPT ![h] = "delete"]
  /\ hjob' = [hjob EXCEPT ![h] = j]
  /\ hpath' = [hpath EXCEPT ![h] = inputOf[j]]
  /\ haudio' = [haudio EXCEPT ![h] = (status[j] = "ready")]
  /\ UNCHANGED <<rowVars, diskVars, runpodVars, workerVars, pollerVars, procVars>>

DeleteRow(h) ==
  /\ Runs /\ hpc[h] = "delete"
  /\ Present(hjob[h])
  /\ status' = [status EXCEPT ![hjob[h]] = "deleted"]
  /\ hpc' = [hpc EXCEPT ![h] = "unlink"]
  /\ UNCHANGED <<runpodID, attempts, model, inputOf, hjob, hpath, haudio,
                 diskVars, runpodVars, workerVars, pollerVars, procVars>>

\* Another request deleted the row in between (ErrNotFound), or the DELETE
\* failed: nothing is unlinked.
DeleteGivesUp(h) ==
  /\ Runs /\ hpc[h] = "delete"
  /\ EndRequest(h)
  /\ UNCHANGED <<rowVars, diskVars, runpodVars, workerVars, pollerVars, procVars>>

Unlink(h) ==
  /\ Runs /\ hpc[h] = "unlink"
  /\ inputs' = inputs \ {hpath[h]}
  /\ audio' = IF haudio[h] THEN [audio EXCEPT ![hjob[h]] = None] ELSE audio
  /\ EndRequest(h)
  /\ UNCHANGED <<rowVars, runpodVars, workerVars, pollerVars, procVars>>

-----------------------------------------------------------------------------
(* The submission worker: Worker.Tick and Worker.submit.                    *)

WorkerGoes(pc) == wpc' = pc /\ UNCHANGED <<wcap, wbatch, wseen, wjob, wsub>>

EndTick ==
  /\ wpc' = "idle" /\ wcap' = 0 /\ wbatch' = {} /\ wseen' = [j \in Jobs |-> 0]
  /\ wjob' = 0 /\ wsub' = NoRender

EndSubmit ==
  /\ wpc' = "next" /\ wjob' = 0 /\ wsub' = NoRender
  /\ UNCHANGED <<wcap, wbatch, wseen>>

\* Deviation: the rows already at RunPod are not subtracted from the budget.
TickWholeBudget ==
  /\ proc = "up" /\ wpc = "idle"
  /\ wcap' = MaxInFlight /\ wpc' = "claim"
  /\ UNCHANGED <<wbatch, wseen, wjob, wsub, rowVars, diskVars, runpodVars,
                 pollerVars, handlerVars, procVars>>

\* InFlight is read first; a tick with no budget left ends at once.
TickInFlight ==
  /\ proc = "up" /\ wpc = "idle"
  /\ Cardinality(InFlight) < MaxInFlight
  /\ wcap' = MaxInFlight - Cardinality(InFlight)
  /\ wpc' = "claim"
  /\ UNCHANGED <<wbatch, wseen, wjob, wsub, rowVars, diskVars, runpodVars,
                 pollerVars, handlerVars, procVars>>

\* The rows are only read: nothing marks them as claimed.
TickClaim ==
  /\ proc = "up" /\ wpc = "claim"
  /\ \E S \in SUBSET Jobs :
       /\ ClaimQueued(wcap, S)
       /\ wbatch' = S
       /\ wseen' = [j \in Jobs |-> IF j \in S THEN attempts[j] ELSE 0]
  /\ wpc' = "next" /\ wcap' = 0
  /\ UNCHANGED <<wjob, wsub, rowVars, diskVars, runpodVars, pollerVars,
                 handlerVars, procVars>>

TickNext ==
  /\ proc = "up" /\ wpc = "next"
  /\ \E j \in wbatch :
       /\ \A i \in wbatch : j <= i
       /\ wjob' = j
       /\ wbatch' = wbatch \ {j}
  /\ wpc' = "submit"
  /\ UNCHANGED <<wcap, wseen, wsub, rowVars, diskVars, runpodVars, pollerVars,
                 handlerVars, procVars>>

\* The batch is done, or the cancelled context ends the tick early.
TickEnds ==
  /\ \/ proc = "up" /\ wpc = "next" /\ wbatch = {}
     \/ proc = "stopping" /\ wpc \in {"claim", "next"}
  /\ EndTick
  /\ UNCHANGED <<rowVars, diskVars, runpodVars, pollerVars, handlerVars, procVars>>

\* ensureTranscript or the payload builder gave up: whisper is down, the
\* reference or the job's own AuK input is gone, the parameters are invalid.
SubmitUnbuildable ==
  /\ Runs /\ wpc = "submit"
  /\ WorkerGoes("fail")
  /\ UNCHANGED <<rowVars, diskVars, runpodVars, pollerVars, handlerVars, procVars>>

Buildable(j) == inputOf[j] = NoPath \/ inputOf[j] \in inputs

\* RunPod takes the POST /run and starts a render of its own id.
Accept(r, j) ==
  /\ render[r] = "free"
  /\ render' = [render EXCEPT ![r] = "queued"]
  /\ renderOf' = [renderOf EXCEPT ![r] = j]

SubmitAccepted(r) ==
  /\ proc = "up" /\ wpc = "submit" /\ Buildable(wjob)
  /\ Accept(r, wjob)
  /\ wsub' = r /\ wpc' = "record"
  /\ UNCHANGED <<wcap, wbatch, wseen, wjob, rowVars, diskVars, pollerVars,
                 handlerVars, procVars>>

\* Deviation: a transient error is always retried.
AlwaysRetry == "retry"

\* Deviation: the inputs are removed after every attempt.
RetryWithoutInputs == IF wseen[wjob] + 1 >= MaxAttempts THEN "fail" ELSE "cleanup"

\* handleSubmitError for a retryable error: give up on the last attempt.
AfterTransient == IF wseen[wjob] + 1 >= MaxAttempts THEN "fail" ELSE "retry"

\* The POST reached RunPod and its answer was lost: a timeout, a reset
\* connection, or the context cancelled by a shutdown.
SubmitAnswerLost(r) ==
  /\ Runs /\ wpc = "submit" /\ Buildable(wjob)
  /\ Accept(r, wjob)
  /\ WorkerGoes(AfterTransient)
  /\ UNCHANGED <<rowVars, diskVars, pollerVars, handlerVars, procVars>>

\* 429, 5xx or a network error before RunPod took the job.
SubmitTransient ==
  /\ Runs /\ wpc = "submit" /\ Buildable(wjob)
  /\ WorkerGoes(AfterTransient)
  /\ UNCHANGED <<rowVars, diskVars, runpodVars, pollerVars, handlerVars, procVars>>

\* IsPermanent: bad key, bad request, payload the client refuses to send.
SubmitRejected ==
  /\ proc = "up" /\ wpc = "submit" /\ Buildable(wjob)
  /\ WorkerGoes("fail")
  /\ UNCHANGED <<rowVars, diskVars, runpodVars, pollerVars, handlerVars, procVars>>

StoreSubmission ==
  \E answer \in {"IN_QUEUE", "IN_PROGRESS"} :
    MarkSubmitted(wjob, wsub, StatusForRunPod(answer))

\* MarkSubmitted and what follows it: an AuK job gives up its input files,
\* a row that was not claimed is left alone.
RecordSubmitted ==
  /\ proc = "up" /\ wpc = "record"
  /\ StoreSubmission
  /\ IF Unclaimed(wjob) /\ inputOf[wjob] # NoPath THEN WorkerGoes("cleanup") ELSE EndSubmit
  /\ UNCHANGED <<diskVars, runpodVars, pollerVars, handlerVars, procVars>>

\* MarkSubmitted reports an error, with or without having changed the row.
RecordFails ==
  /\ wpc = "record"
  /\ \/ Runs /\ Fault /\ (StoreSubmission \/ UNCHANGED rowVars)
     \/ Cancelled /\ UNCHANGED rowVars
  /\ wpc' = "fail" /\ wsub' = NoRender
  /\ UNCHANGED <<wcap, wbatch, wseen, wjob, diskVars, runpodVars, pollerVars, handlerVars>>

RemoveInputs ==
  /\ Runs /\ wpc = "cleanup"
  /\ inputs' = inputs \ {inputOf[wjob]}
  /\ EndSubmit
  /\ UNCHANGED <<audio, rowVars, runpodVars, pollerVars, handlerVars, procVars>>

Retry ==
  /\ wpc = "retry"
  /\ \/ proc = "up" /\ NoteAttempt(wjob) /\ UNCHANGED procVars
     \/ Runs /\ Fault /\ UNCHANGED rowVars
     \/ Cancelled /\ UNCHANGED rowVars
  /\ EndSubmit
  /\ UNCHANGED <<diskVars, runpodVars, pollerVars, handlerVars>>

\* Worker.fail writes its verdict under a background context when stopping.
Fail ==
  /\ Runs /\ wpc = "fail"
  /\ \/ MarkFailed(wjob) /\ UNCHANGED procVars
     \/ Fault /\ UNCHANGED rowVars
  /\ EndSubmit
  /\ UNCHANGED <<diskVars, runpodVars, pollerVars, handlerVars>>

-----------------------------------------------------------------------------
(* The status poller: Poller.Tick, pollOne and complete.                    *)

PollerGoes(pc) == ppc' = pc /\ UNCHANGED <<pbatch, pseen, pjob>>

EndPoll == ppc' = "next" /\ pjob' = 0 /\ UNCHANGED <<pbatch, pseen>>

PollList ==
  /\ proc = "up" /\ ppc = "idle"
  /\ \E S \in SUBSET Jobs :
       /\ ListPendingRunPod(PollLimit, S)
       /\ S # {}
       /\ pbatch' = S
       /\ pseen' = [j \in Jobs |-> IF j \in S THEN runpodID[j] ELSE NoRender]
  /\ ppc' = "next"
  /\ UNCHANGED <<pjob, rowVars, diskVars, runpodVars, workerVars, handlerVars, procVars>>

PollEnds ==
  /\ ppc = "next"
  /\ \/ proc = "up" /\ pbatch = {}
     \/ proc = "stopping"
  /\ ppc' = "idle" /\ pbatch' = {} /\ pjob' = 0
  /\ pseen' = [j \in Jobs |-> NoRender]
  /\ UNCHANGED <<rowVars, diskVars, runpodVars, workerVars, handlerVars, procVars>>

\* GET /status/{id} on the snapshot's id, then the branch pollOne takes.
Poll(j, pc) ==
  /\ proc = "up" /\ ppc = "next" /\ j \in pbatch
  /\ pbatch' = pbatch \ {j}
  /\ pjob' = IF pc = "next" THEN 0 ELSE j
  /\ ppc' = pc
  /\ UNCHANGED <<pseen, rowVars, diskVars, runpodVars, workerVars, handlerVars, procVars>>

\* IN_QUEUE, or a status query that failed in a way that may heal.
PollNothing(j)   == Poll(j, "next")
PollRejected(j)  == Poll(j, "fail")
PollRunning(j)   == Poll(j, "progress") /\ render[pseen[j]] = "running"
PollFailed(j)    == Poll(j, "fail") /\ render[pseen[j]] = "failed"
PollCompleted(j) == Poll(j, "save") /\ render[pseen[j]] = "completed"

\* Deviation: RunPod's own word for the status is stored.
ProgressUnmapped ==
  /\ proc = "up" /\ ppc = "progress"
  /\ UpdateStatus(pjob, "IN_PROGRESS")
  /\ EndPoll
  /\ UNCHANGED <<diskVars, runpodVars, workerVars, handlerVars, procVars>>

\* pollOne skips the write when its snapshot is already in_progress; no row
\* goes back from in_progress to submitted, so writing it again changes nothing.
Progress ==
  /\ ppc = "progress"
  /\ \/ proc = "up" /\ UpdateStatus(pjob, "in_progress") /\ UNCHANGED procVars
     \/ Runs /\ Fault /\ UNCHANGED rowVars
     \/ Cancelled /\ UNCHANGED rowVars
  /\ EndPoll
  /\ UNCHANGED <<diskVars, runpodVars, workerVars, handlerVars>>

\* Deviation: the error is dropped and the job made ready without a file.
OutputErrorIgnored ==
  /\ Runs /\ ppc = "save"
  /\ PollerGoes("ready")
  /\ UNCHANGED <<rowVars, diskVars, runpodVars, workerVars, handlerVars, procVars>>

\* outputAudio found no usable audio: bad base64, empty, too large, or its
\* download failed (as it does under a cancelled context).
OutputUnusable ==
  /\ Runs /\ ppc = "save"
  /\ PollerGoes("fail")
  /\ UNCHANGED <<rowVars, diskVars, runpodVars, workerVars, handlerVars, procVars>>

\* os.WriteFile truncates the file and then writes it.
WriteBegins ==
  /\ Runs /\ ppc = "save"
  /\ audio' = [audio EXCEPT ![pjob] = Torn]
  /\ PollerGoes("write")
  /\ UNCHANGED <<inputs, rowVars, runpodVars, workerVars, handlerVars, procVars>>

WriteEnds ==
  /\ Runs /\ ppc = "write"
  /\ \/ audio' = [audio EXCEPT ![pjob] = pseen[pjob]] /\ PollerGoes("ready") /\ UNCHANGED procVars
     \/ Fault /\ PollerGoes("fail") /\ UNCHANGED audio
  /\ UNCHANGED <<inputs, rowVars, runpodVars, workerVars, handlerVars>>

\* Word alignment ran in between; it changes no state and never fails a job.
Ready ==
  /\ ppc = "ready"
  /\ \/ proc = "up" /\ MarkReady(pjob) /\ UNCHANGED procVars
     \/ Runs /\ Fault /\ UNCHANGED rowVars
     \/ Cancelled /\ UNCHANGED rowVars
  /\ EndPoll
  /\ UNCHANGED <<diskVars, runpodVars, workerVars, handlerVars>>

PollerFail ==
  /\ Runs /\ ppc = "fail"
  /\ \/ MarkPollerFailed(pjob) /\ UNCHANGED procVars
     \/ Fault /\ UNCHANGED rowVars
  /\ EndPoll
  /\ UNCHANGED <<diskVars, runpodVars, workerVars, handlerVars>>

-----------------------------------------------------------------------------
(* RunPod and the process.                                                  *)

RenderMoves(r, from, to) ==
  /\ render[r] \in from
  /\ render' = [render EXCEPT ![r] = to]
  /\ UNCHANGED <<renderOf, rowVars, diskVars, workerVars, pollerVars, handlerVars, procVars>>

RenderStarts(r)    == RenderMoves(r, {"queued"}, "running")
RenderCompletes(r) == RenderMoves(r, {"running"}, "completed")
RenderFails(r)     == RenderMoves(r, {"queued", "running"}, "failed")

\* What the process held is gone; rows, files and renders stay.
Forget ==
  /\ EndTick
  /\ ppc' = "idle" /\ pbatch' = {} /\ pjob' = 0
  /\ pseen' = [j \in Jobs |-> NoRender]
  /\ hpc' = [h \in Handlers |-> "idle"] /\ hjob' = [h \in Handlers |-> 0]
  /\ hpath' = [h \in Handlers |-> NoPath] /\ haudio' = [h \in Handlers |-> FALSE]
  /\ UNCHANGED <<rowVars, diskVars, runpodVars>>

Crash ==
  /\ Runs
  /\ faults < MaxFaults
  /\ faults' = faults + 1 /\ proc' = "down" /\ UNCHANGED stops
  /\ Forget

\* SIGTERM cancels the context both goroutines run under.
Stop ==
  /\ proc = "up"
  /\ stops < MaxStops
  /\ stops' = stops + 1 /\ proc' = "stopping" /\ UNCHANGED faults
  /\ UNCHANGED <<rowVars, diskVars, runpodVars, workerVars, pollerVars, handlerVars>>

\* run returns once Shutdown has drained the requests and both goroutines
\* are done.
Exit ==
  /\ proc = "stopping"
  /\ wpc = "idle" /\ ppc = "idle" /\ \A h \in Handlers : hpc[h] = "idle"
  /\ proc' = "down"
  /\ UNCHANGED <<faults, stops, rowVars, diskVars, runpodVars, workerVars,
                 pollerVars, handlerVars>>

Restart ==
  /\ proc = "down"
  /\ proc' = "up"
  /\ UNCHANGED <<faults, stops, rowVars, diskVars, runpodVars, workerVars,
                 pollerVars, handlerVars>>

-----------------------------------------------------------------------------
Worker ==
  \/ TickInFlight \/ TickClaim \/ TickNext \/ TickEnds
  \/ SubmitUnbuildable \/ SubmitTransient \/ SubmitRejected
  \/ \E r \in Renders : SubmitAccepted(r) \/ SubmitAnswerLost(r)
  \/ RecordSubmitted \/ RecordFails \/ RemoveInputs \/ Retry \/ Fail

Poller ==
  \/ PollList \/ PollEnds
  \/ \E j \in Jobs : \/ PollNothing(j) \/ PollRejected(j)
                     \/ PollRunning(j) \/ PollFailed(j) \/ PollCompleted(j)
  \/ Progress \/ OutputUnusable \/ WriteBegins \/ WriteEnds \/ Ready \/ PollerFail

Handler(h) ==
  \/ \E j \in Jobs, e \in Models : CreateJob(h, j, e)
  \/ \E j \in Jobs : EnqueueAuK(h, j) \/ DeleteGet(h, j)
  \/ \E p \in Paths : SaveInput(h, p)
  \/ EnqueueRefused(h) \/ DeleteRow(h) \/ DeleteGivesUp(h) \/ Unlink(h)

RunPod == \E r \in Renders : RenderStarts(r) \/ RenderCompletes(r) \/ RenderFails(r)

Process == Crash \/ Stop \/ Exit \/ Restart

Next == Worker \/ Poller \/ (\E h \in Handlers : Handler(h)) \/ RunPod \/ Process

Spec == Init /\ [][Next]_vars

-----------------------------------------------------------------------------
(* Safety.                                                                  *)

\* The rows at RunPod never exceed the budget, though a tick reads the count
\* and the rows in two statements and submits the batch much later
\* (worker.go Tick).
BudgetRespected == Cardinality(InFlight) <= MaxInFlight

\* A ready row's file is complete and is the output of the very render the row
\* is bound to, whatever crashed, was deleted or was polled again meanwhile
\* (poller.go complete, saveRender, MarkReady; handleDownloadAudio serves it).
ReadyIsPlayable == \A j \in Jobs : status[j] = "ready" => audio[j] = runpodID[j]

\* A queued job can always be built again: its AuK inputs go only after the
\* submission is recorded or the row is gone (worker.go submit, handleCreateJob).
QueuedIsBuildable == \A j \in Jobs : status[j] = "queued" => Buildable(j)

\* Unless the process crashed, every AuK input file on disk belongs to a row
\* or to a request being served, which will remove it (handleCreateJob's
\* keepInputs, handleDeleteJob, worker.go submit).
InputsOwned ==
  faults = 0 =>
    \A p \in inputs : \/ \E j \in Jobs : Present(j) /\ inputOf[j] = p
                      \/ \E h \in Handlers : hpath[h] = p

\* What a job can cost: one render per attempt, and one more for each crash,
\* failed write or stop that kept the worker from counting its attempt
\* (worker.go handleSubmitError, NoteAttempt, MarkFailed).
RendersOf(j) == {r \in Renders : renderOf[r] = j}
CostBounded ==
  \A j \in Jobs : Cardinality(RendersOf(j)) <= MaxAttempts + faults + stops

\* A verdict is final: a ready or failed row changes only by being deleted,
\* although MarkReady would overwrite a failed row (jobs.go MarkReady).
VerdictIsFinal ==
  [][\A j \in Jobs : status[j] \in {"ready", "failed"}
                       => status'[j] \in {status[j], "deleted"}]_vars

\* A job at RunPod fails only on the poller's verdict: the worker, unsure
\* whether its own write of the id went through, never fails it
\* (worker.go submit after MarkSubmitted, jobs.go MarkFailed).
WorkerSparesInFlight ==
  [][\A j \in InFlight : status'[j] = "failed" => pjob = j]_vars

\* With a budget the poller's limit covers, a pass lists every row at RunPod:
\* none is without a RunPod id, and none is hidden behind older rows that never
\* move, so none waits for another's verdict (poller.go Tick, ListPendingRunPod).
PollerSeesAll ==
  [][MaxInFlight <= PollLimit /\ PollList => InFlight \subseteq pbatch']_vars

\* The queue does to a job only what the abstract lifecycle allows: budgeted
\* dispatch to a fresh RunPod id that is kept for good, one verdict, removal.
PhaseOf(s) ==
  CASE s = "queued" -> "waiting"
    [] s \in InFlightStatus -> "active"
    [] s = "deleted" -> "removed"
    [] OTHER -> s
Lifecycle == INSTANCE JobLifecycle WITH
  phase <- [j \in Jobs |-> PhaseOf(status[j])],
  remote <- runpodID
ImplementsLifecycle == Lifecycle!Spec

-----------------------------------------------------------------------------
(* What the documentation says and the code does not do.                    *)

\* "Submitting twice is impossible, not merely unlikely." (README.md:200)
SubmittedOnce == \A j \in Jobs : Cardinality(RendersOf(j)) <= 1

-----------------------------------------------------------------------------
(* Liveness.  The goroutines keep running, requests being served end, and   *)
(* the process is started again (docker's restart policy).  For the engines *)
(* E, RunPod ends every render and a status query that keeps being tried    *)
(* is answered some time; nothing is assumed of the other engines, and      *)
(* nothing of users.                                                        *)

WorkerRuns ==
  /\ WF_vars(TickInFlight)
  /\ WF_vars(TickClaim \/ TickNext \/ TickEnds)
  /\ WF_vars(SubmitUnbuildable \/ SubmitTransient \/ SubmitRejected)
  /\ WF_vars(RecordSubmitted \/ RecordFails)
  /\ WF_vars(RemoveInputs \/ Retry \/ Fail)

PollerRuns ==
  /\ WF_vars(PollList)
  /\ WF_vars(PollEnds)
  /\ WF_vars(\E j \in Jobs : PollNothing(j))
  /\ WF_vars(Progress \/ OutputUnusable \/ WriteBegins \/ WriteEnds \/ Ready \/ PollerFail)

RequestsEnd ==
  \A h \in Handlers : WF_vars(EnqueueRefused(h) \/ DeleteGivesUp(h) \/ Unlink(h))

ProcessRuns == WF_vars(Exit) /\ WF_vars(Restart)

Answered(j) == PollRunning(j) \/ PollFailed(j) \/ PollCompleted(j)

Serves(E) ==
  /\ \A j \in Jobs : SF_vars(model[j] \in E /\ Answered(j))
  /\ \A r \in Renders :
       WF_vars(/\ renderOf[r] # 0 /\ model[renderOf[r]] \in E
               /\ RenderStarts(r) \/ RenderCompletes(r))

Fairness(E) == WorkerRuns /\ PollerRuns /\ RequestsEnd /\ ProcessRuns /\ Serves(E)

\* Every queued job is eventually decided, or its owner deletes it: nothing
\* is left queued or at RunPod for ever by a crash, a lost answer, a full
\* budget or a failed write.
EveryJobDecided ==
  \A j \in Jobs :
    status[j] = "queued" ~> status[j] \in {"ready", "failed", "deleted"}

\* "Higgs being unavailable never degrades MOSS jobs" (README.md:208): a queued
\* job of an engine that serves leaves the queue whatever the others do.
Unaffected(E) ==
  \A j \in Jobs : status[j] = "queued" /\ model[j] \in E ~> status[j] # "queued"
=============================================================================
