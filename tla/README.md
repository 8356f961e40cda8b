# Timbre: models, checks and proofs

Timbre is a small web application: signed-in users turn text into speech with
one of four engines (MOSS, Higgs, Breeze, AuK) that run as serverless endpoints
at RunPod.  One Go process serves the pages and runs two background goroutines;
everything durable is one SQLite database and a directory of audio files.  The
difficulty is in what happens *between* a database statement, a file and a
request to RunPod, when the other goroutine, another request, a crash or a
shutdown comes in between.

Paths below are relative to `internal/` unless they start elsewhere.

## 1. Inventory

| Component | State it keeps | Operations | What is hard | Correct when |
|---|---|---|---|---|
| Jobs table (`jobs/jobs.go`) | one row per job: status, runpod_id, attempts, params, audio_path | Enqueue, ClaimQueued, MarkSubmitted, NoteAttempt, MarkFailed, MarkPollerFailed, UpdateStatus, MarkReady, Delete | every statement is a compare-and-set on a row that may have moved on or vanished | verdicts are final; an id is never replaced; nothing deleted returns |
| Submission worker (`worker/worker.go`) | the claimed batch, transcription leases | Tick, submit, handleSubmitError, fail | count and claim are two statements; answers get lost; MarkSubmitted may fail after RunPod took the job; shutdown cancels its context | budget respected; attempts bounded; a job at RunPod is never failed by it |
| Status poller (`worker/poller.go`) | the rows it listed | Tick, pollOne, complete, saveRender, fail | file and row are written separately; the row may be deleted meanwhile | ready means the complete file of that render; each job is decided |
| Job requests (`server/jobs.go`) | AuK input files on disk | handleCreateJob, handleDeleteJob, saveAuKInput, copyAuKRender | file before row, row before unlink | no file without an owner, no queued job without its files |
| RunPod client (`runpod/runpod.go`) | none | Submit*, Status*, Validate*, MarshalJSON, UnmarshalJSON | four engines with four contracts; a request is validated again from what the row kept; streamed answers | what a form passed can be built and is taken by its engine; the verdict is the answer's |
| Process (`cmd/timbre/main.go`) | the signal context | run, startWorkers, Shutdown | drain under a cancelled context | a restart resumes every job |
| Schema and migrations (`db/db.go`) | the tables | Open, Migrate at every start | re-running on live data; MIN(id) promotion; owner back-fill | idempotent; never locks everybody out, never promotes anybody new |
| Accounts and sessions (`auth/`) | users, sessions, CSRF | Bootstrap, Register, Login, Current, Middleware | role and status read per request while an administrator changes them | only active accounts act; one administrator always left |
| Access requests (`auth/access.go`) | applications | Create, Approve, Deny, claim | check-then-insert; concurrent approvals | one account per application |
| Administration (`server/admin.go`, `gate.go`, `apply.go`) | — | setAdminUserStatus, setAdminUserRole, deleteAdminUser | last-administrator check under concurrent transactions; files of a deleted user | the last administrator stays |
| Voice library (`voices/voices.go`, `server/voices.go`) | voices, assignments, reference files | CreateCloned, Assign, Unassign, SetGlobal, Rename, Delete, Reference | row and file written separately; two owner columns | access is what assignments say; a row has its file |
| Reference transcription (`worker.go`, `voices.go`) | leases in memory, transcript column | claimTranscription, transcribePendingVoice, ensureTranscript, transcribeClaimedVoice | backoff, expiry, a lease shared by jobs and the scan, a restart that forgets the leases, the bounded pending list | a bounded rate of attempts; no job fails without cause; every clip with speech is heard at some point |
| Assistant, web pages, configuration, scripts | — | — | — | not modelled (section 5) |

How they interact: requests and both goroutines share only the database and the
files; the worker hands a job to the poller by writing `runpod_id`; the poller
hands it to the requests by writing `audio_path` and `ready`; deletions come
from requests (and from the removal of a user) at any time; the signal context
connects the process's shutdown with both goroutines.

`PROJECT.json` lists every component with its status, and every hazard with the
line where it bites and the properties that watch it.

## 2. Modules

| Module | What it is |
|---|---|
| `JobLifecycle` | the abstract specification: what the queue promises about a job |
| `RenderQueue` | the jobs table, worker, poller, job requests, files, RunPod and the process |
| `MCRenderQueue` | instances for TLC: symmetry, the backlog a restart finds, fairness choices |
| `RenderQueueProofs` | the inductive invariant of `RenderQueue` and its safety theorems |
| `RenderQueueRefinement` | `RenderQueue` implements `JobLifecycle`, and what `JobLifecycle` alone implies |
| `RenderQueueResources` | the input files of a job and the renders it starts: invariants and theorems |
| `Membership` | the abstract specification: what Timbre promises about its members and their applications |
| `Accounts` | users, access requests, sessions, the gates, the administrators' operations, every start |
| `MCAccounts` | instances for TLC: symmetry, a table with two administrators |
| `AccountsProofs` | the inductive invariant of `Accounts` and its safety theorems |
| `AccountsRefinement` | `Accounts` implements `Membership`, and what `Membership` alone implies |
| `Sharing` | the abstract specification: what Timbre promises about its voices, who hears them and what jobs get of them |
| `VoiceLibrary` | voices, assignments, reference files, the requests on them, a job's read of a reference, the migrations of every start |
| `MCVoiceLibrary` | instances for TLC: symmetry |
| `VoiceLibraryProofs` | the inductive invariant of `VoiceLibrary`, its safety theorems, and that it implements `Sharing` |
| `Transcription` | the transcripts of clones: leases with time, the scan, the jobs that wait for a transcript, Whisper, restarts |
| `MCTranscription` | the instance for TLC: the tables a restarted process may find, fairness |
| `TranscriptionProofs` | the inductive invariant of `Transcription` and its safety theorems |
| `Engines` | one job of any engine: form, row, request, answer, verdict; the validations and the decoding as operators |
| `MCEngines` | the forms, answers and deployments TLC tries |
| `EnginesProofs` | the inductive invariant of `Engines` and its safety theorems |

Some actions have a twin marked "Deviation": the form a plausible mistake would
give that action.  No specification uses them; `PROJECT.json` pairs each with
the property that must then fail.

### `RenderQueue`: state

| Variables | In the code |
|---|---|
| `status`, `runpodID`, `attempts`, `model`, `inputOf` | a row of `jobs` (`inputOf` is the path in `params_json`); `absent` and `deleted` stand for no row, since AUTOINCREMENT never reuses an id |
| `audio[j]` | `renders/job_<id>.<ext>`: missing, torn, or the render it holds |
| `inputs` | the AuK input files under `inputs/user_<id>/` |
| `render`, `renderOf` | RunPod's side: the state of each of its ids, and the job it was started for (ghost) |
| `wpc`, `wcap`, `wbatch`, `wseen`, `wjob`, `wsub` | the worker: where it is, the capacity it computed, the rows it claimed with the attempts they had, the job at hand, the id the POST returned |
| `ppc`, `pbatch`, `pseen`, `pjob` | the poller: where it is, the rows it listed with their ids, the job at hand |
| `hpc`, `hjob`, `hpath`, `haudio` | each request: where it is, the row it loaded and the paths it took from it |
| `proc`, `faults`, `stops` | running, draining after SIGTERM, or down; how many faults and stops happened |

### `RenderQueue`: actions

| Code | Actions |
|---|---|
| `Worker.Tick` | `TickInFlight` (count), `TickClaim` (ClaimQueued), `TickNext`, `TickEnds` |
| `Worker.submit` | `SubmitUnbuildable`; `SubmitAccepted`, `SubmitAnswerLost`, `SubmitTransient`, `SubmitRejected`; `RecordSubmitted`, `RecordFails`; `RemoveInputs` |
| `handleSubmitError`, `fail` | `AfterTransient`, `Retry`, `Fail` |
| `Poller.Tick`, `pollOne` | `PollList`, `PollEnds`, `PollNothing`, `PollRunning`, `PollFailed`, `PollCompleted`, `PollRejected`, `Progress` |
| `complete`, `saveRender`, `fail` | `OutputUnusable`, `WriteBegins`, `WriteEnds`, `Ready`, `PollerFail` |
| `handleCreateJob` | `CreateJob`; with AuK files `SaveInput`, then `EnqueueAuK` or `EnqueueRefused` |
| `handleDeleteJob`, `Store.Delete` | `DeleteGet`, `DeleteRow` or `DeleteGivesUp`, `Unlink` |
| `run` in `cmd/timbre/main.go` | `Stop`, `Exit`, `Restart`; `Crash` |
| RunPod (external) | `Accept`, `RenderStarts`, `RenderCompletes`, `RenderFails` |

A statement is one step and everything the code does between two statements,
files or requests is not.  The two places where two steps of the code are one
here are the building of a payload with the POST that sends it (no other actor
can see the difference: the bytes are already read) and the POST with RunPod's
acceptance.

### Abstractions, and what they leave out

- `updated_at` has a resolution of one second and is not kept: the rows the
  poller lists are any rows when there are more than the limit.
- `os.CreateTemp` returns a name nothing refers to.
- A SELECT that fails ends the tick; the next tick repeats it, so nothing is
  lost by leaving it out.  A write that fails changes nothing, except
  MarkSubmitted, which may also fail after it was committed: the code has a
  branch for exactly that.  An INSERT that commits and reports an error is left
  out.
- `UpdateStatus` is skipped by the code when the snapshot is already
  `in_progress`; here it rewrites the same value.
- Word alignment runs between the file and MarkReady, changes no state and never
  fails a job.
- Shutdown drains the requests; the fifteen-second limit after which it stops
  waiting is not modelled (`Exit` waits).
- Removing a user deletes that user's jobs; for a job this is a deletion like any
  other.  What it does to the rows and to the input files is in `Accounts`.

### `Accounts`: state

| Variables | In the code |
|---|---|
| `role`, `state`, `name` | a row of `users` |
| `request`, `applicant`, `decidedBy`, `granted` | a row of `access_requests`; `granted` is a ghost, the accounts an approval created |
| `sessions` | the user ids some stored session names; a set, for nothing tells two sessions of a user apart |
| `jobOwner`, `disk` | for an AuK input path, the user of the job that names it; the files there are |
| `hpc`, `hwho`, `hop`, `harg`, `hpaths` | each request: where it is, the user of its session, what it asks, the id or name it names, the files it holds or is to remove |
| `fresh` | the requests whose open transaction still reads the database as it is |
| `wasApproved`, `wasAdmin` | ghost: the requests whose user was approved, was an administrator, at some moment since they began |
| `proc`, `restarts`, `cut` | down, migrated, serving; how often it went down; whether that interrupted a request |

### `Accounts`: actions

| Code | Actions |
|---|---|
| `Register`, `Login`, `Logout` (`auth/auth.go`) | `Register`; `LoginLookup`, `LoginSave`; `SessionEnds` |
| `AccessRequests.Create` | `ApplyCheckName`, `ApplyCheckPending`, `ApplyInsert` |
| `Middleware`, `approvalGate`, `adminOnly` | `Begin`; `GateOpens`, `GateCloses`; `AdminOnly` |
| `setAdminUserStatus`, `setAdminUserRole`, `deleteAdminUser` | `TxRead` or `TxRefused`; `TxWrite` or `TxBusy` |
| `handleAdminDeleteUser` after the commit | `Unlink`, `Logout` |
| `Approve`, `Deny`, `claim`, the deletion of a request | `Approve`, `Deny`, `DeleteRequest`, `DecisionFails` |
| `handleCreateJob` for AuK | `SaveInput`, `Enqueue`, `EnqueueRefused` |
| `Migrate` (`migrateUserColumns`), `Bootstrap` | `Migrate`, `Bootstrap`; `Down` |

The transactions are deferred: one that begins with a SELECT takes a snapshot,
and SQLite in WAL mode refuses to let it write once anything was committed since
(SQLITE_BUSY_SNAPSHOT).  Hence `fresh`: `TxRead` adds the request, every commit
of whatever table empties the set, and `TxWrite` asks for membership.  This is
what makes the last-administrator check sound, and the mutant `TxWriteAnyway`
shows that nothing else does.  A transaction that begins with a write holds the
lock to its end and is one step.

Left out: passwords, form validation and CSRF decide only whether an operation
happens; e-mail addresses and notes; the render files of a deleted user's jobs.

### `Membership`, and how `Accounts` maps to it

`Membership` is what an operator would say of the accounts without mentioning
requests: `Join`, `Apply`, `Accept`, `Refuse`, `Forget`, `SetStanding`, `SetRank`
and `Remove` happen one at a time on the members of that moment, and nothing but
`Reinstate` (on the first member) and `Open` happens while Timbre is closed.

| `Membership` | `Accounts` |
|---|---|
| `standing`, `rank`, `login` | `state`, `role`, `name` |
| `application`, `applicant`, `decider`, `account` | `request`, `applicant`, `decidedBy`, `granted` |
| `open` | `proc = "up"` |

`ImplementsMembership` is its specification under this mapping.
`FollowsMembership` asks the same of each step without the initial state, for
the run that starts from a filled table.  What makes both more than a renaming:
an operation on a user reads in one step and writes in another, with everything
else in between; the guards of `Membership` look at the members at the write.

### `VoiceLibrary`: state

| Variables | In the code |
|---|---|
| `kind`, `ref`, `owner`, `creator` | a row of `voices`: a stock voice of the list, one no longer listed (`stale`), a clone; `reference_path`, `owner_id`, `creator_id` |
| `global`, `assigned` | `is_global`; the rows of `voice_assignments` |
| `columns`, `legacy` | which of the two later columns exist; whether the database is of an older release and no start completed the back-fill |
| `disk` | the reference files |
| `users`, `admins` | accounts and administrators, which change at any moment (`RemoveUser`, `SetRole`), one administrator always left: what `Accounts` proves |
| `job`, `jobUser`, `jobVoice` | the MOSS jobs and their outcome: rendered with a voice, without one, or failed for it |
| `wjob`, `wvoice`, `wpath` | the worker: the claimed job, its voice, the path it read from the voice's row |
| `hpc`, `hwho`, `hop`, `hvoice`, `huser`, `hpath`, `hadmin` | each request; `hadmin` those whose user was an administrator when it asked |
| `fresh`, `proc`, `restarts`, `cut` | as in `Accounts`; `proc` is also the next statement of the start |

### `VoiceLibrary`: actions

| Code | Actions |
|---|---|
| `CreateCloned`, `writeReference` | `SaveReference`, `InsertClone`, `RequestFails` |
| `handleAdminVoiceOwner`, `Assign`, `Unassign`, `SetGlobal` | `AssignLookup`, `Assign`, `ClearGrants`; `TxRead`, `Unassign`; `SetGlobal` |
| `handleVoiceDelete`, the administrators' deletion, `Delete`, `deleteVoice` | `Identity`, `TxRead`, `DeleteVoice`, `Unlink` |
| `handleCreateJob` with a voice | `CheckAccess`, `Enqueue` |
| `buildInput`, `Reference` | `Claim`; `ReferenceRow`; `SubmitPlain`, `SubmitVoiced`, `FailUnreadable`, `Retry` |
| `migrateVoiceColumns` | `AddCreator`, `BackfillCreators`, `AddGlobal`, `PromoteStock` |
| `backfillLegacyVoiceOwners` | `BackfillOwners` |
| `SeedStock` | `SeedStock`, `Reconcile` |
| `deleteAdminUser` | `RemoveUser` |

Only MOSS jobs are modelled: a Higgs or Breeze job whose voice is gone fails,
which is its verdict; a MOSS job is rendered without one, so only there can a
race change what the user hears; transcripts are in `Transcription`.  Left out:
names (Rename touches nothing the properties read), requests for ids that never
were, and the reuse of a random file name that something still refers to.  The
stock list is one voice, and a stale one on an older database: each row of the
seed goes the same way.

### `Sharing`, and how `VoiceLibrary` maps to it

`Sharing` has neither requests nor files, no owner mirror, no worker and no
migration: `Publish`, `Grant`, `Revoke`, `Share`, `Withdraw`, `Leave`, `Ask` and
`Render` are one step each on the library of that moment, and while Timbre is
closed an older library is taken over (`Attribute`, `ShareStock`, `TakeOver`), once,
and the stock is seen to (`Stock`, `Open`).

| `Sharing` | `VoiceLibrary` |
|---|---|
| `kind`, `author`, `everyone`, `grants` | `kind`, `creator`, `global`, `assigned` |
| `members` | `users` |
| `job`, `asker`, `wish` | `job`, `jobUser`, `jobVoice` |
| `taken`, `open` | `~legacy`, `proc = "up"` |

`owner`, the mirror of an earlier release's single owner, is not mapped: that it can
be left out says that it decides nothing after the take-over, although every start
copies it into the assignments.  `Render` decides by one look at the library what
the worker decides by two reads and a file.

### `Transcription`: state

| Variables | In the code |
|---|---|
| `row` | a clone's row of `voices`: `pending` without a transcript, `ready` with one |
| `attempts`, `age` | its entry of the worker's `leases` (no attempts: no entry); the time since `claimedAt`, up to the expiry |
| `calls` | ghost: the ages of its claims in this process that are younger than the expiry |
| `trouble` | ghost: the voices some attempt failed for or was cut short |
| `status`, `engine`, `voice`, `tries`, `error` | a row of `jobs`; `voice` 0 is a NULL `voice_id`, `error` the class of its reason |
| `asked`, `sent` | ghost: the voice a job was created for; RunPod's side: what its request carried, nothing, a clip, or a clip with its transcript |
| `wpc`, `wbatch`, `wseen`, `wjob`, `wvoice`, `wref` | the worker: where it is, the claimed jobs with the voices they had, the job and voice at hand (no job: the scan's attempt), what it built |
| `proc`, `mishaps` | up, stopping or down; stops, crashes and failed writes so far |

### `Transcription`: actions

| Code | Actions |
|---|---|
| upload, deletion, `handleCreateJob` | `Upload`, `DeleteVoice`, `CreateJob` |
| `Worker.Tick`, the deferred `transcribePendingVoice` | `Tick`, `TickNext`, `TickEnds`; `Scan`, `ScanEnds` |
| `ensureTranscript`, `claimTranscription` | `EnsureNothing`, `EnsureClaims`, `EnsureRefused` (with `Claimable`, `Claim`) |
| `transcribeClaimedVoice` | `ReadClip`, `ReadClipFails`; `Heard`, `NotHeard`; `StoreTranscript`, `StoreFails` |
| `buildInput`, `buildHiggsInput`, `buildBreezeInput` | `BuildClip`, `BuildPlain`; `Pair`, `PairFails`; `ReadCancelled` |
| the POST, `handleSubmitError` | `Accepted`, `Refused`, `PostCancelled` |
| `run`; a dying process | `Stop`, `Exit`, `Restart`; `Crash` |

Time is kept as ages: the steps that wait (the pause before a tick, Whisper's
answer, the POST) take a delay of `Delays` and make every lease older; all other
steps are instantaneous against a backoff of seconds.  A restart empties the one
map of leases.  A stop cancels the queries, the call and the POST that are under
way, and a job they were for is failed with a context the stop does not cancel.
Left out: the clip's bytes, jobs whose file cannot be read, the count of rows at
RunPod (`Tick` claims any oldest rows, none included), and
ClearReferenceTranscript, which nothing calls.

### `Engines`: state

| Variables | In the code |
|---|---|
| `form` | ghost: the form as it was posted |
| `status`, `row`, `link`, `tries`, `error` | the job: its status, `params_json`, whether `voice_id` is not NULL, its attempts, the class of its reason |
| `voice` | what the voice the form named is now: stock, a clone, a clone with a clip above 4 MiB, gone |
| `payload`, `posted` | the request the worker built; ghost: the request that left last |
| `talked`, `answer` | ghost: the endpoints the job was sent to or asked for at; how its engine ended it |
| `configured` | the endpoints that are set |

### `Engines`: actions

| Code | Actions |
|---|---|
| `handleCreateJob`, `parseJobParams`, `parseAuKJobParams`, `Enqueue` | `CreateJob` for a form that `Accepts` |
| deletion of the voice | `DeleteVoice` |
| `buildInput`, `buildHiggsInput`, `buildBreezeInput`, `buildAuKInput` | `BuildMOSS`, `BuildHiggs`, `BuildBreeze` and `BuildBreezeFails`, `BuildAuK`; `TranscriptFails` |
| `Submit`, `SubmitHiggs`, `SubmitBreeze`, `SubmitAuK` | `PostRefused`; `Accepted`, `Rejected` |
| `Poller.status`, `Status*` | `PollRefused`, `PollFailed`, `PollCompleted` |
| `Output.UnmarshalJSON`, `outputAudio`, `failureReason` | `Picked`, `failureReason` |
| a new start, perhaps with other settings | `Restart` |

A field is one of the classes the checks tell apart: `""` is blank, `"junk"` does
not parse or is out of the enumeration, `"nan"` a NaN, `"far"` a cfg_scale outside
AuK's range.  Fields that every check treats alike share one.  The branch of
`BuildAuK` that fails never fires: that is `AcceptedIsBuildable`.  Left out: the
health queries, word timings, and whatever is only copied (text, languages,
file names).

## 3. Runs

Bounds are in the `.cfg` files; `MaxFaults` bounds crashes and failed writes
together, `MaxStops` graceful stops, `Renders` what RunPod accepts.

| Run | Question | Bounds, and why they are enough |
|---|---|---|
| `restart` | Types; is a ready job playable, the budget respected, a verdict final, a job at RunPod spared by the worker, every row at RunPod in the poller's list, and the lifecycle implemented? | two jobs, two renders, one request, one fault, one stop, a budget of one and a list of one, the boundary at which a row could first be left out: one job can be in each goroutine's hands while a request deletes it and the process dies between any two steps |
| `retry` | How many renders can a job start, does a queued job keep its inputs, is every input file owned? | one AuK job of two attempts, four renders, one path, two requests (a creation and a deletion meet, with the worker's own removal), one fault, one stop: the fourth render is one too many unless a fault and a stop both happened |
| `live` | Is every queued job decided? | two jobs and a budget of one, so one has to wait for the other; one fault and one stop |
| `admins` | Types; is an administrator left, does only the entitled act, is the membership implemented? | two users, one application and two requests: both administrators can disable, demote or delete each other (and themselves) in overlapping transactions; one restart |
| `decisions` | One account per application, final decisions, nothing left behind, is every step one of the membership? | three ids, one application, two requests, one input path, two names, from a table with two signed-in administrators, the second of whom has the name that is applied for (`ManagedSpec`): both can approve, deny or delete the application while its name or the decider vanishes |
| `library` | Do rows have files and files rows, is access granted, deletion entitled, and sharing implemented (authorship stable, an older library taken over once)? | two voices, two users, two requests, one path, one restart; an empty or an older database |
| `hearing` | Is a clone heard while it is in the library? | three voices, one job, two requests, one restart: the worker's two reads with a creation, a share and a deletion in between |
| `transcripts` | Is the rate of attempts bounded, does no job fail without cause, goes a clip only with its transcript, and is the clip with speech heard behind one that never will be? | three voices, of which only the last has speech, from a table whose first clip is deleted, with one Higgs or Breeze job to come, or pending, with its job failed (`StartedSpec`): a job and two clips, or three clips; three attempts, backoffs of 1 and 2, expiry 6, a timeout of 3 (half the expiry, as in the code), so that attempts are refused for the backoff and for the limit, a lease expires and starts its count again, and two clips that are never heard do keep the scan from the third until one is deleted; one mishap; a MOSS job waits for no transcript, and its clip is in `hearing` |
| `engines` | Is every request one its engine takes, can what was accepted be built, does it say what the form said, is the verdict the answer's, and does a job stay with its engine? | for each engine the classes of its own fields combined (of AuK's variant, steps and guidance the eight triples that meet a default, a mismatch, a NaN or neither), the fields of the others blank or all filled as the studio posts them; streams of up to three elements; started with all endpoints or with MOSS alone; two attempts |
| `twice`, `isolation`, `later` | What the documentation says and the code does not do | the smallest instances that show it |

Symmetry is used for RunPod's ids, paths and requests (and, in `VoiceLibrary`,
users), never in the runs that check a temporal property with fairness; ids of
rows are ordered (`ORDER BY created_at, id`, MIN(id)) and are not symmetric.
`BacklogSpec` starts from rows that are all queued, the state in which a
restarted process finds the table; the others start from an empty database, but
`ManagedSpec`, `StartedSpec`, and `VoiceLibrary`, which also starts from what an older release
leaves.  Deadlock is checked in every run.

### What the violations show

- `twice` (README.md:200, "Submitting twice is impossible"): a POST that RunPod
  accepted and whose answer is lost is retried like any transient error.  What
  does hold, and is checked by `retry`: at most one render per counted attempt,
  plus one for each crash, failed write or stop (`CostBounded`); a shutdown
  counts there because it cancels the POST in flight together with the statement
  that would have counted its attempt.
- `isolation` (README.md:208, "Higgs being unavailable never degrades MOSS
  jobs"): renders that never end hold the one budget all engines share.
- `later` (db/db.go:226, "no later account is ever promoted by a restart"): once
  the first account is deleted, MIN(id) is another one.  Likewise, with no
  administrator configured, who registers first is one after the next start.
  What does hold: `AdministratorLeft`.

Seen while modelling and not given a run:

- A job deleted between the poller's listing and its write leaves a file no row
  names, although README.md:61 says that a deletion removes the row and the file.
- A column and the statement that fills it are two: a start that ends between
  them never fills it, although db/db.go:246-247 says that legacy rows get their
  attribution exactly once.
- The budget counts rows: a row deleted while its render runs frees a slot
  RunPod has not freed.
- Two requests for the same name can both be open, since the check and the
  INSERT are two statements (one of them at most becomes an account).
- A voice deleted between the worker's read of its row and of its file fails a
  MOSS job that would otherwise be rendered without it.
- "Give up after 3 attempts" (README.md:205) is a rate, not a limit: an expired
  lease starts its count again, and a restart forgets all leases.  What holds is
  `RateBounded`, for one process.
- Hence two bad clips can starve a later upload, where the comment at
  worker.go:922 speaks of one.  If Whisper hangs on both to its timeout of 30 s, the
  lease of the first, 60 s after its third claim, expires while the second is being
  tried; the first is the oldest claimable again, and a third clip never has its
  turn.  TLC shows it in the instance of `transcripts` when `EveryClipHeard` loses
  its premise.  Deleting one of the two ends it.  By the same arithmetic one bad
  clip is enough while every tick also spends 30 s on a submission; jobs are
  finitely many in the model, so that this ends.
- A job that meets the lease of another attempt fails for good, although its
  message says that a retry is pending.
- An `audio_url` in an element of a stream before the last is lost; so is the
  reason in a COMPLETED answer whose only element is an error envelope, which is
  reported as without audio.
- A job at RunPod fails if its engine's endpoint is not set after a restart.
- A seed above 2^53 changes on its way through `params_json`.
- A NaN passes every range check and is refused only by json.Marshal, as an
  internal error.
- Clips of up to 10 MB are accepted for engines that take 4 MiB, and Breeze jobs
  with a stock voice are accepted that can never be built.

### Fairness

`RenderQueue` and `Transcription` state it; the other modules are about safety.
In `RenderQueue`, `WorkerRuns` and `PollerRuns` say that the two goroutines go
on: both loops tick until the context is cancelled (worker.go Run, poller.go
Run), and no step of theirs blocks for ever (the HTTP client has a timeout).  `RequestsEnd`: a request
that is being served ends.  `ProcessRuns`: a process that is asked to stop exits,
and one that is down is started again (`restart: unless-stopped` in
docker-compose.yml, and whoever stopped it).  `Serves(E)`: for the engines in E,
RunPod ends every render it accepted, and a status query that is repeated again
and again is answered at some point.  Nothing is assumed of users, of faults, of
which error a submission meets, nor of engines outside E: `isolation` assumes
`Serves` of MOSS only.

In `Transcription` the worker goes on and the process comes back, as above.  Time
passes: again and again a tick is preceded by a pause (the loop waits for its
ticker).  And Whisper, asked about a clip with speech again and again, answers
at some point: that is what a retry is for.  Nothing is assumed of the other clips;
`EveryClipHeard` has as its premise that from some time on at most one of them is
in the library without a transcript.  Uploads, deletions, mishaps and RunPod are not constrained.

## 4. Proofs

Everything here holds for every value of the constants, from `QueueAssumption`,
`AccountsAssumption`, `LibraryAssumption`, `TranscriptionAssumption` and
`EnginesAssumption` alone: bounds are natural numbers; the budget, the attempts,
the limit and the expiry are positive; null values are not ids; forms and answers
are of the declared types.

| Module | Theorem | Says |
|---|---|---|
| `RenderQueueProofs` | `TypeCorrect` | `Spec => []TypeOK` |
| | `BudgetAlwaysRespected` | `Spec => []BudgetRespected` |
| | `ReadyAlwaysPlayable` | `Spec => []ReadyIsPlayable` |
| | `VerdictAlwaysFinal` | `Spec => VerdictIsFinal` |
| | `WorkerAlwaysSparesInFlight` | `Spec => WorkerSparesInFlight` |
| `RenderQueueRefinement` | `QueueImplementsLifecycle` | `Spec => ImplementsLifecycle` |
| | `PollerAlwaysSeesAll` | `Spec => PollerSeesAll` |
| | `IdsStayApart` | `Spec => []IdsApart`: no two rows carry one RunPod id |
| | `IdNeverReplaced` | `Spec => [][IdKept]_vars`: a row's id is its first one |
| | `LifecycleSuffices` | `ImplementsLifecycle /\ []TypeOK` implies the budget, final verdicts and both of the above |
| `RenderQueueResources` | `QueuedAlwaysBuildable` | `Spec => []QueuedIsBuildable` |
| | `InputsAlwaysOwned` | `Spec => []InputsOwned` |
| | `CostAlwaysBounded` | `Spec => []CostBounded` |
| `AccountsProofs` | `TypeCorrect` | `Spec => []TypeOK` |
| | `AdministratorAlwaysLeft` | `Spec => []AdministratorLeft` |
| | `EveryoneEntitled` | `Spec => []ActsEntitled` |
| | `ApplicationsBecomeOneAccount` | `Spec => []OneAccountPerApplication` |
| | `DeletionLeavesNothing` | `Spec => []NothingLeftBehind` |
| | `DecisionsStand` | `Spec => DecisionIsFinal` |
| `AccountsRefinement` | `AccountsImplementMembership` | `Spec => ImplementsMembership` |
| | `StepsFollowMembership` | `IInv /\ [][Next]_vars => FollowsMembership` |
| | `MembershipSuffices` | `Promise!Spec` implies `AdministratorLeft`, `OneAccountPerApplication`, `DecisionIsFinal` |
| `VoiceLibraryProofs` | `TypeCorrect` | `Spec => []TypeOK` |
| | `ClonesHaveFiles` | `Spec => []CloneHasFile` |
| | `NoFileOrphaned` | `Spec => []NoOrphanFile` |
| | `AccessAlwaysGranted` | `Spec => AccessIsGranted` |
| | `CreatorAlwaysStable` | `Spec => CreatorIsStable` |
| | `DeletionAlwaysEntitled` | `Spec => DeletedByEntitled` |
| | `CloneAlwaysHeard` | `Spec => CloneIsHeard` |
| | `LibraryImplementsSharing` | `Spec => ImplementsSharing` |
| | `SharingSuffices` | `Promise!Spec` implies `[]NothingDangles`, `CreatorIsStable`, `CloneIsHeard` |
| | `NothingEverDangles` | `Spec => []NothingDangles`: grants, shares, authors and jobs name only voices and users that are there |
| `TranscriptionProofs` | `TypeCorrect` | `Spec => []TypeOK` |
| | `RateAlwaysBounded` | `Spec => []RateBounded` |
| | `FailuresHaveCause` | `Spec => []FailedForCause` |
| | `ClipAlwaysPaired` | `Spec => []ClipIsPaired` |
| `EnginesProofs` | `TypeCorrect` | `Spec => []TypeOK` |
| | `ContractAlwaysMet` | `Spec => []ContractMet` |
| | `AcceptedAlwaysBuildable` | `Spec => []AcceptedIsBuildable` |
| | `RequestAlwaysKept` | `Spec => []RequestKept` |
| | `VerdictAlwaysMatches` | `Spec => []VerdictMatchesAnswer` |
| | `AlwaysOwnEngine` | `Spec => []StaysWithItsEngine` |
| | `NormalizesOnce` | normalising an AuK input a second time changes nothing, for every input |
| | `AuKSettledByTheForm` | the row of an accepted AuK form is a fixed point of the normalisation, passes the second validation, resolves to the task the form asked for, and meets AuK's contract |
| | `PicksTheLastAudio` | the last element with inline audio is picked of a stream of any length |

The theorems of a component stand on its inductive invariant, `IInv`.

### The argument for `RenderQueue`

The inductive invariant `IInv` has five parts.  `TypeOK` alone is not inductive:
`wjob` indexes the rows, and only `Cursors` says it is a job when it does.
`PollerOwns` is the heart of the argument: from the moment the poller lists a row
until it decides it, the row is at RunPod under the id of the snapshot or is
deleted.  It holds because every statement of the worker asks for `queued` and
those of the poller come one after the other.  It gives `VerdictIsFinal`
although MarkReady would overwrite a failed row, and, with what `Playable` says
of the moment between saveRender and MarkReady, `ReadyIsPlayable`.  `Budget`
counts, besides the rows at RunPod, the claimed ones: a tick's count can only go
down until the claim, and after it a row enters `InFlight` only from the
claimed ones (`NoGrowthStep`), so the sum never grows.

`RenderQueueRefinement` adds that the ids RunPod handed out are fresh, reduces
every step to what it does to `status` and `runpodID` (`RowsStep`), and matches
those few cases with the actions of `JobLifecycle`; binding an id is the case
that needs the budget.  `IdsApart` and `IdKept` follow from the same cases: an id
enters a row only at MarkSubmitted, which asks for a row without one, and comes
from RunPod unused.  `PollerAlwaysSeesAll` is the budget once more: what the
poller lists is all of `InFlight` unless there are more rows than `PollLimit`,
which is 50 in the code.  Its premise, a budget of at most the limit, is not
enforced by config.go; the default is 2.

`LifecycleSuffices` goes the other way.  It uses no action of `RenderQueue`: a
step of `JobLifecycle` moves one job from one phase to another (`LifecycleMove`),
and `LifecycleKeeps` finds the budget, the verdicts and the ids in that alone,
given that a job not yet at RunPod has no id (`Unborn`).  So the abstract
specification is strong enough to be relied upon, and the refinement theorem says
something.

`RenderQueueResources` adds two things.  `Inputs` says that no two rows share an
input file, nor a row and an upload, that a request which deletes a row holds
that row's path, and that the worker removes files only of a row that left the
queue; so nobody removes what a queued job needs, and a file outlives its row
only in the hands of the request that will remove it.  `Bill` keeps an account
per job: its renders are covered by its counted attempts, the submission under
way, and what may have gone uncounted.  A stop lets one attempt go uncounted and
no more, because a tick takes no further job once the context is cancelled:
`Uncounted` therefore holds a stop back while the submission it met is under
way.  `Counted` supplies that the attempts the worker saw at its claim are those
of the row, and that a row that is still queued has one left.

### The argument for `Accounts`

The inductive invariant has, besides the types, `Shape` (a request past the
session gate names a user, and its target is of the kind its operation asks for)
and three strengthened properties.  `Managed` says that a snapshot that is still
the database allows what its transaction will write: every commit empties
`fresh`, so the check `TxRead` made holds when `TxWrite` writes, and the
administrators are more than the one it takes away (`AnotherAdmin`).  Between
the two steps of a start it says that migration has left an administrator as
soon as there is any user; `SmallestUser` is where well-foundedness gives the
lowest id.  `Applications` is OneAccountPerApplication with a witness in place
of a cardinality.  `Tidy` says that a deletion whose snapshot is still the
database has listed every input file of the user, and that each file on disk has
a job, or a request that will remove it or give it one.  Most steps are `Calm`
or `Aside`, they change nothing of this kind, and share one lemma each.

### The refinement of `Membership`

Most steps of `Accounts` change no table (`Invisible`).  A commit on a user
(`WriteChangesMember`) is the interesting one: by `Managed` the snapshot its check
was made in is still the database, so `Spared`, which `Membership` asks of the
present members, is what `TxRead` found.  An INSERT is `Enter` (`InsertEnters`):
AUTOINCREMENT and the UNIQUE name give a fresh id and a free name.  Deleting a
user clears `decided_by`, as the foreign key's ON DELETE SET NULL does.  A start
is `Reinstate`, when migrateUserColumns changes the first user, and then `Open`;
`SmallestUser` and the invariant between the two supply that it does not open
without an administrator.  `MembershipSuffices` shows, from `Membership` alone, the three
properties a reader would want of it; its invariant `Kept` is the abstract
counterpart of `IInv`, without a request or a snapshot in it.

### The argument for `VoiceLibrary`

`Files` says that a clone has its file and no other row has one, and that the
paths of rows, uploads and pending unlinks are all different: a deletion keeps
its path from the row to the unlink, so it takes no other row's file.
`Snapshots` is the counterpart of `Managed`: a snapshot that is still the
database allows its write and has the path of the row.  `Orphans` is NoOrphanFile
with the only requests that really hold a file, those between the file and the
row, and between the row and the unlink.  `Mirror` says that once a start has
copied the owners into the assignments every owner is assigned, so later starts
add nothing; `Schema` that the statement which fills in creators runs on an
older database only.  `Hearing` relates the worker's two reads: the path it holds
is that of the voice as long as the voice is in the library, and then the file
is there.

For the refinement, `Serving` adds that nothing is served before a start is over,
that a start ends with stock, that a job's voice is in the library, and that the
worker's path was that of a clone.  A request's commit is one operation
(`RequestKeepsPromise`), for its snapshot was the database; the worker's outcome is
`Render` (`WorkerKeepsPromise`), because `Hearing` and `Files` tie the path it read
to the voice as long as that is there; and each statement of a start is a step of
the take-over, or changes nothing because `Mirror` has every owner assigned
(`StartKeepsPromise`).  `SharingSuffices` again uses no action of `VoiceLibrary`.

### The argument for `Transcription`

`Rate` is RateBounded strengthened: as long as a lease has not expired, the
claims of the last period are no more than the attempts it counts, and none of
them is younger than the lease; so when an expired lease starts its count again,
every earlier claim is outside the period, and the count may go back to one.
That a lease of a voice without a transcript is never the leftover of an attempt
that went well is `Leases`: it is the worker's own, or some attempt for the voice
failed; hence a refused job has its cause.  It needs a transcript and the
removal of its lease to be one step for everybody else, which the single worker
goroutine gives.  `Places` says what each of the worker's steps stands on: at the
builders a clip that needs a transcript has it or is gone, and what is about to
be posted is fit for its engine.  `Links` says that a job's voice is the one asked
for until the voice is deleted.

### The argument for `Engines`

`Chosen` says that the row is what the form gave, and `Requests` that what was
built or posted is what row and voice give, up to the voice having vanished.  Both
validations of AuK meet in one lemma, `AuKRow`: the row of an accepted form is a
fixed point of the normalisation, so the second validation reads the very fields
the first one passed.  `AcceptedRow` and `ChosenRow` say the same of the other
engines, without NaN because Enqueue could not have encoded one.  Every other
step leaves form, row and voice alone (`Frame`), and DeleteVoice only takes the
voice away (`VoiceLost`).  For the verdict, `LastInline` (the greatest index
exists, by well-foundedness) gives that an element with audio is picked if there
is any.  `NormalizesOnce`, `AuKSettledByTheForm` and `PicksTheLastAudio` state what
these lemmas say of the code's pure functions, without the machine around them.

### Only model-checked

`EveryJobDecided` and `EveryClipHeard`: liveness under fairness is beyond the
prover.  Every other property of a passing run is also a theorem; `CreatorIsStable`
is a theorem only, for it is part of what `ImplementsSharing` promises.

## 5. Not modelled

- An `os.Remove` that fails after a deletion has committed is logged and leaves the
  file; the properties about orphan files take it to succeed.
- The writing assistant (`assistant/`, `server/assistant.go`) keeps no state and
  retries nothing: one request in, one request out.
- Templates, styles, listings and audio streaming read state and lay it out.
- Configuration is read once at a start; its bounds are the assumptions on the
  constants, and the endpoints it sets are `configured` in `Engines`.
- Word alignment happens after the file is written, changes no state and cannot
  fail a job; health queries change nothing.
- Renaming a voice touches a column nothing here reads.
- Litestream, the containers and the scripts are not part of the program.
- Numbers: `Engines` keeps the classes a check distinguishes, so what a
  conversion does within a class (the seed above) is outside the model.
- Crashes of the database below a committed statement, and a second process on
  the same database, which docker-compose.yml does not start.
