---------------------------- MODULE Transcription ----------------------------
(***************************************************************************)
(* Reference transcripts.  A clone is usable by Higgs and Breeze only with *)
(* the transcript of its clip.  The submission worker, one goroutine, asks *)
(* Whisper for it: for one pending voice after every tick, and on the spot *)
(* when a job that needs a transcript is about to be submitted.  A lease   *)
(* per voice, kept in memory, spaces the attempts and bounds their rate.   *)
(*                                                                         *)
(* Meanwhile voices are uploaded and deleted, Whisper is slow or fails,    *)
(* and the process stops, crashes and starts again without its leases.     *)
(* Time is kept as ages: a step that waits makes every lease older.        *)
(***************************************************************************)
EXTENDS Naturals, FiniteSets

CONSTANTS
  MaxVoices,     \* voice ids handed out (bound)
  MaxJobs,       \* job ids handed out (bound)
  Speech,        \* the voices whose clip holds speech
  Engines,       \* the engines jobs are created for
  ScanLimit,     \* the limit transcribePendingVoice lists
  MaxAttempts,   \* WhisperMaxAttempts
  Backoff1,      \* whisperBackoff(1)
  Backoff2,      \* whisperBackoff(2)
  Timeout,       \* WhisperTimeout, and the timeout of a POST to RunPod
  Expiry,        \* WhisperClaimExpiry
  Interval,      \* the longest pause between two ticks
  Delays,        \* how long a step that waits may take (bound)
  MaxTries,      \* DefaultMaxAttempts of a submission
  MaxMishaps     \* stops, crashes and failed writes (bound)

Voices == 1..MaxVoices
Jobs == 1..MaxJobs

ASSUME TranscriptionAssumption ==
  /\ MaxVoices \in Nat /\ MaxJobs \in Nat
  /\ Engines \subseteq {"moss", "higgs", "breeze"}
  /\ MaxAttempts \in Nat \ {0}
  /\ Backoff1 \in Nat /\ Backoff2 \in Nat
  /\ Timeout \in Nat /\ Interval \in Nat
  /\ Expiry \in Nat \ {0}
  /\ Delays \subseteq Nat
  /\ MaxTries \in Nat \ {0}
  /\ MaxMishaps \in Nat

VARIABLES
  row,             \* a clone: absent, pending, ready (has a transcript), deleted
  attempts, age,   \* its lease: attempts (0: none), time since claimedAt
  calls,           \* ghost: the ages below Expiry of its claims in this process
  trouble,         \* ghost: the voices some attempt failed for or was cut short
  status, engine, voice, tries, error,  \* the jobs; voice 0 is a NULL voice_id
  asked,           \* ghost: the voice a job was created for
  sent,            \* RunPod's side: what a job's request carried
  wpc, wbatch, wseen, wjob, wvoice, wref,  \* the worker
  proc, mishaps

leaseVars  == <<attempts, age, calls>>
jobVars    == <<status, engine, voice, tries, error, asked, sent>>
workerVars == <<wpc, wbatch, wseen, wjob, wvoice, wref>>
procVars   == <<proc, mishaps>>
vars == <<row, leaseVars, trouble, jobVars, workerVars, procVars>>

Present(v) == row[v] \in {"pending", "ready"}
Pending == {v \in Voices : row[v] = "pending"}
Ages == 0..(Expiry - 1)

TypeOK ==
  /\ row \in [Voices -> {"absent", "pending", "ready", "deleted"}]
  /\ attempts \in [Voices -> 0..MaxAttempts]
  /\ age \in [Voices -> 0..Expiry]
  /\ calls \in [Voices -> SUBSET Ages]
  /\ trouble \subseteq Voices
  /\ status \in [Jobs -> {"absent", "queued", "sent", "failed"}]
  /\ engine \in [Jobs -> {"moss", "higgs", "breeze"}]
  /\ voice \in [Jobs -> Voices \cup {0}]
  /\ asked \in [Jobs -> Voices \cup {0}]
  /\ tries \in [Jobs -> 0..MaxTries]
  /\ error \in [Jobs -> {"none", "transcript", "voice", "runpod", "stopped"}]
  /\ sent \in [Jobs -> {"none", "plain", "clip", "paired"}]
  /\ wpc \in {"idle", "next", "ensure", "read", "call", "store", "build",
              "pair", "post", "scan"}
  /\ wbatch \subseteq Jobs
  /\ wseen \in [Jobs -> Voices \cup {0}]
  /\ wjob \in Jobs \cup {0}
  /\ wvoice \in Voices \cup {0}
  /\ wref \in {"plain", "clip", "paired"}
  /\ proc \in {"up", "stopping", "down"}
  /\ mishaps \in 0..MaxMishaps

Init ==
  /\ row = [v \in Voices |-> "absent"]
  /\ attempts = [v \in Voices |-> 0] /\ age = [v \in Voices |-> 0]
  /\ calls = [v \in Voices |-> {}] /\ trouble = {}
  /\ status = [j \in Jobs |-> "absent"] /\ engine = [j \in Jobs |-> "moss"]
  /\ voice = [j \in Jobs |-> 0] /\ asked = [j \in Jobs |-> 0]
  /\ tries = [j \in Jobs |-> 0] /\ error = [j \in Jobs |-> "none"]
  /\ sent = [j \in Jobs |-> "none"]
  /\ wpc = "idle" /\ wbatch = {} /\ wseen = [j \in Jobs |-> 0]
  /\ wjob = 0 /\ wvoice = 0 /\ wref = "plain"
  /\ proc = "up" /\ mishaps = 0

-----------------------------------------------------------------------------
(* The leases.                                                              *)

\* d units of time pass; a lease older than the expiry is just expired.
Elapse(d) ==
  /\ age' = [v \in Voices |-> IF attempts[v] = 0 THEN 0
                              ELSE IF age[v] + d < Expiry THEN age[v] + d ELSE Expiry]
  /\ calls' = [v \in Voices |-> {a + d : a \in calls[v]} \cap Ages]
  /\ UNCHANGED attempts

whisperBackoff(n) == IF n = 1 THEN Backoff1 ELSE IF n = 2 THEN Backoff2 ELSE 0

\* Deviation: the attempts have no limit.
ClaimableForEver(v) ==
  \/ attempts[v] = 0
  \/ age[v] >= Expiry
  \/ age[v] >= whisperBackoff(attempts[v])

Claimable(v) ==
  \/ attempts[v] = 0
  \/ age[v] >= Expiry
  \/ attempts[v] < MaxAttempts /\ age[v] >= whisperBackoff(attempts[v])

\* Deviation: a later claim does not renew claimedAt.
ClaimKeepsTime(v) ==
  /\ Claimable(v)
  /\ attempts' = [attempts EXCEPT ![v] = IF age[v] >= Expiry THEN 1 ELSE @ + 1]
  /\ age' = [age EXCEPT ![v] = IF attempts[v] = 0 \/ @ >= Expiry THEN 0 ELSE @]
  /\ calls' = [calls EXCEPT ![v] = @ \cup {0}]

\* claimTranscription's true branch: an expired lease starts its count over.
Claim(v) ==
  /\ Claimable(v)
  /\ attempts' = [attempts EXCEPT ![v] = IF age[v] >= Expiry THEN 1 ELSE @ + 1]
  /\ age' = [age EXCEPT ![v] = 0]
  /\ calls' = [calls EXCEPT ![v] = @ \cup {0}]

ClearClaim(v) ==
  /\ attempts' = [attempts EXCEPT ![v] = 0]
  /\ age' = [age EXCEPT ![v] = 0]
  /\ UNCHANGED calls

Runs == proc # "down"
Mishap == mishaps < MaxMishaps /\ mishaps' = mishaps + 1

-----------------------------------------------------------------------------
(* The requests: clones come and go, jobs are created for them.             *)

Upload(v) ==
  /\ proc = "up"
  /\ row[v] = "absent" /\ \A u \in 1..(v - 1) : row[u] # "absent"
  /\ row' = [row EXCEPT ![v] = "pending"]
  /\ UNCHANGED <<leaseVars, trouble, jobVars, workerVars, procVars>>

\* ON DELETE SET NULL unlinks the jobs; the lease, if any, stays in the map.
DeleteVoice(v) ==
  /\ proc = "up" /\ Present(v)
  /\ row' = [row EXCEPT ![v] = "deleted"]
  /\ voice' = [j \in Jobs |-> IF voice[j] = v THEN 0 ELSE voice[j]]
  /\ UNCHANGED <<leaseVars, trouble, status, engine, tries, error, asked, sent,
                 workerVars, procVars>>

CreateJob(j, e, v) ==
  /\ proc = "up" /\ Present(v)
  /\ status[j] = "absent" /\ \A i \in 1..(j - 1) : status[i] # "absent"
  /\ status' = [status EXCEPT ![j] = "queued"]
  /\ engine' = [engine EXCEPT ![j] = e]
  /\ voice' = [voice EXCEPT ![j] = v]
  /\ asked' = [asked EXCEPT ![j] = v]
  /\ UNCHANGED <<row, leaseVars, trouble, tries, error, sent, workerVars, procVars>>

-----------------------------------------------------------------------------
(* The worker.                                                              *)

Idle ==
  /\ wpc' = "idle" /\ wbatch' = {} /\ wseen' = [j \in Jobs |-> 0]
  /\ wjob' = 0 /\ wvoice' = 0 /\ wref' = "plain"

Goes(pc) == wpc' = pc /\ UNCHANGED <<wbatch, wseen, wjob, wvoice, wref>>

SubmitEnds ==
  /\ wpc' = "next" /\ wjob' = 0 /\ wvoice' = 0 /\ wref' = "plain"
  /\ UNCHANGED <<wbatch, wseen>>

\* Worker.fail: MarkFailed under a context that a stop does not cancel.
Fail(why) ==
  /\ status' = [status EXCEPT ![wjob] = "failed"]
  /\ error' = [error EXCEPT ![wjob] = why]
  /\ SubmitEnds
  /\ UNCHANGED <<engine, voice, tries, asked, sent>>

\* A tick claims the oldest queued rows the budget allows, possibly none; it
\* keeps what it read of them.
Tick(d) ==
  /\ proc = "up" /\ wpc = "idle" /\ d <= Interval
  /\ Elapse(d)
  /\ \E S \in SUBSET {j \in Jobs : status[j] = "queued"} :
       /\ \A i \in Jobs, j \in S : status[i] = "queued" /\ i < j => i \in S
       /\ wbatch' = S
       /\ wseen' = [j \in Jobs |-> IF j \in S THEN voice[j] ELSE 0]
  /\ wpc' = "next"
  /\ UNCHANGED <<row, trouble, jobVars, wjob, wvoice, wref, procVars>>

TickNext ==
  /\ proc = "up" /\ wpc = "next"
  /\ \E j \in wbatch :
       /\ \A i \in wbatch : j <= i
       /\ wjob' = j /\ wvoice' = wseen[j] /\ wbatch' = wbatch \ {j}
  /\ wpc' = "ensure"
  /\ UNCHANGED <<row, leaseVars, trouble, jobVars, wseen, wref, procVars>>

\* The deferred transcribePendingVoice runs on every return of the tick.
TickEnds ==
  /\ Runs /\ wpc = "next"
  /\ wbatch = {} \/ proc = "stopping"
  /\ Goes("scan")
  /\ UNCHANGED <<row, leaseVars, trouble, jobVars, procVars>>

\* A stop cancels the queries that follow; without a voice there is none.
CanRead == proc = "up" \/ (proc = "stopping" /\ wvoice = 0)

NeedsTranscript == engine[wjob] # "moss" /\ wvoice # 0

\* ensureTranscript has nothing to do: MOSS, no voice any more, or a transcript.
EnsureNothing ==
  /\ CanRead /\ wpc = "ensure"
  /\ NeedsTranscript => row[wvoice] # "pending"
  /\ Goes("build")
  /\ UNCHANGED <<row, leaseVars, trouble, jobVars, procVars>>

EnsureClaims ==
  /\ proc = "up" /\ wpc = "ensure"
  /\ NeedsTranscript /\ row[wvoice] = "pending"
  /\ Claim(wvoice)
  /\ Goes("read")
  /\ UNCHANGED <<row, trouble, jobVars, procVars>>

\* "not available yet (retry pending)": the job fails all the same.
EnsureRefused ==
  /\ proc = "up" /\ wpc = "ensure"
  /\ NeedsTranscript /\ row[wvoice] = "pending" /\ ~Claimable(wvoice)
  /\ Fail("transcript")
  /\ UNCHANGED <<row, leaseVars, trouble, procVars>>

\* Deviation: the scan gives up at the first voice it cannot claim.
FirstListed == {v \in Pending : \A u \in Pending : v <= u}

\* transcribePendingVoice: the first listed voice that can be claimed.
Listed == {v \in Pending : Cardinality({u \in Pending : u < v}) < ScanLimit}

Scan(v) ==
  /\ proc = "up" /\ wpc = "scan"
  /\ v \in Listed /\ \A u \in Listed : u < v => ~Claimable(u)
  /\ Claim(v)
  /\ wpc' = "read" /\ wvoice' = v
  /\ UNCHANGED <<row, trouble, jobVars, wbatch, wseen, wjob, wref, procVars>>

ScanEnds ==
  /\ Runs /\ wpc = "scan"
  /\ proc = "stopping" \/ \A v \in Listed : ~Claimable(v)
  /\ Idle
  /\ UNCHANGED <<row, leaseVars, trouble, jobVars, procVars>>

-----------------------------------------------------------------------------
(* transcribeClaimedVoice, for the job at hand or (wjob = 0) for the scan.  *)

AttemptSucceeds ==
  /\ IF wjob = 0 THEN Idle ELSE Goes("build")
  /\ UNCHANGED jobVars

AttemptFails ==
  /\ trouble' = trouble \cup {wvoice}
  /\ IF wjob = 0 THEN Idle /\ UNCHANGED jobVars ELSE Fail("transcript")

ReadClip ==
  /\ proc = "up" /\ wpc = "read" /\ Present(wvoice)
  /\ Goes("call")
  /\ UNCHANGED <<row, leaseVars, trouble, jobVars, procVars>>

\* The row is gone, or the cancelled context fails the query.
ReadClipFails ==
  /\ Runs /\ wpc = "read"
  /\ ~Present(wvoice) \/ proc = "stopping"
  /\ AttemptFails
  /\ UNCHANGED <<row, leaseVars, procVars>>

Heard(v, d) ==
  /\ proc = "up" /\ wpc = "call" /\ wvoice = v /\ v \in Speech /\ d <= Timeout
  /\ Elapse(d)
  /\ Goes("store")
  /\ UNCHANGED <<row, trouble, jobVars, procVars>>

\* An error, no speech, the timeout, or the cancelled context.
NotHeard(d) ==
  /\ Runs /\ wpc = "call" /\ d <= Timeout
  /\ Elapse(d)
  /\ AttemptFails
  /\ UNCHANGED <<row, procVars>>

\* Deviation: the statement stores nothing, nobody looks at RowsAffected, and
\* the lease stays.
StoreIgnored ==
  /\ proc = "up" /\ wpc = "store" /\ Present(wvoice)
  /\ AttemptSucceeds
  /\ UNCHANGED <<row, leaseVars, trouble, procVars>>

\* SetReferenceTranscript and, once it is stored, clearTranscriptionClaim.
StoreTranscript ==
  /\ proc = "up" /\ wpc = "store" /\ Present(wvoice)
  /\ row' = [row EXCEPT ![wvoice] = "ready"]
  /\ ClearClaim(wvoice)
  /\ AttemptSucceeds
  /\ UNCHANGED <<trouble, procVars>>

\* ErrNotFound, the cancelled context, or a failed write; the lease stays.
StoreFails ==
  /\ Runs /\ wpc = "store"
  /\ \/ (~Present(wvoice) \/ proc = "stopping") /\ UNCHANGED procVars
     \/ Mishap /\ UNCHANGED proc
  /\ AttemptFails
  /\ UNCHANGED <<row, leaseVars>>

-----------------------------------------------------------------------------
(* The payload builders and the POST.                                       *)

\* The first read, Reference: MOSS needs no more.
BuildClip ==
  /\ proc = "up" /\ wpc = "build" /\ wvoice # 0 /\ Present(wvoice)
  /\ IF engine[wjob] = "moss"
     THEN wpc' = "post" /\ wref' = "clip"
     ELSE wpc' = "pair" /\ UNCHANGED wref
  /\ UNCHANGED <<row, leaseVars, trouble, jobVars, wbatch, wseen, wjob, wvoice, procVars>>

\* No such voice any more: MOSS and Higgs render without it, Breeze cannot.
BuildPlain ==
  /\ CanRead /\ wpc = "build" /\ (wvoice # 0 => ~Present(wvoice))
  /\ IF engine[wjob] = "breeze" THEN Fail("voice") ELSE Goes("post") /\ UNCHANGED jobVars
  /\ UNCHANGED <<row, leaseVars, trouble, procVars>>

\* Deviation: a clip is good enough without its transcript.
PairLoosely ==
  /\ proc = "up" /\ wpc = "pair"
  /\ wpc' = "post"
  /\ wref' = IF row[wvoice] = "ready" THEN "paired" ELSE "clip"
  /\ UNCHANGED <<row, leaseVars, trouble, jobVars, wbatch, wseen, wjob, wvoice, procVars>>

\* The second read, Get: the transcript.
Pair ==
  /\ proc = "up" /\ wpc = "pair" /\ row[wvoice] = "ready"
  /\ wpc' = "post" /\ wref' = "paired"
  /\ UNCHANGED <<row, leaseVars, trouble, jobVars, wbatch, wseen, wjob, wvoice, procVars>>

PairFails ==
  /\ proc = "up" /\ wpc = "pair" /\ row[wvoice] # "ready"
  /\ Fail("voice")
  /\ UNCHANGED <<row, leaseVars, trouble, procVars>>

\* A stop between two reads: the cancelled query fails the job for good.
ReadCancelled ==
  /\ proc = "stopping" /\ wpc \in {"ensure", "build", "pair"} /\ wvoice # 0
  /\ Fail("stopped")
  /\ UNCHANGED <<row, leaseVars, trouble, procVars>>

Accepted(d) ==
  /\ proc = "up" /\ wpc = "post" /\ d <= Timeout
  /\ Elapse(d)
  /\ status' = [status EXCEPT ![wjob] = "sent"]
  /\ sent' = [sent EXCEPT ![wjob] = wref]
  /\ SubmitEnds
  /\ UNCHANGED <<row, trouble, engine, voice, tries, error, asked, procVars>>

\* handleSubmitError: retried on a later tick, given up on the last attempt.
Refused(d) ==
  /\ proc = "up" /\ wpc = "post" /\ d <= Timeout
  /\ Elapse(d)
  /\ \/ Fail("runpod")
     \/ /\ tries[wjob] + 1 < MaxTries
        /\ tries' = [tries EXCEPT ![wjob] = @ + 1]
        /\ SubmitEnds
        /\ UNCHANGED <<status, engine, voice, error, asked, sent>>
  /\ UNCHANGED <<row, trouble, procVars>>

\* A POST that the stop cancelled: NoteAttempt is cancelled with it, and the
\* row stays queued; the verdict after the last attempt is written all the same.
PostCancelled ==
  /\ proc = "stopping" /\ wpc = "post"
  /\ IF tries[wjob] + 1 < MaxTries THEN SubmitEnds /\ UNCHANGED jobVars ELSE Fail("runpod")
  /\ UNCHANGED <<row, leaseVars, trouble, procVars>>

-----------------------------------------------------------------------------
(* The process.  The leases live in memory.                                 *)

Stop ==
  /\ proc = "up" /\ Mishap /\ proc' = "stopping"
  /\ UNCHANGED <<row, leaseVars, trouble, jobVars, workerVars>>

Forget ==
  /\ attempts' = [v \in Voices |-> 0] /\ age' = [v \in Voices |-> 0]
  /\ calls' = [v \in Voices |-> {}]
  /\ Idle
  /\ UNCHANGED <<row, trouble, jobVars>>

Crash == Runs /\ Mishap /\ proc' = "down" /\ Forget
Exit == proc = "stopping" /\ wpc = "idle" /\ proc' = "down" /\ Forget /\ UNCHANGED mishaps

Restart ==
  /\ proc = "down" /\ proc' = "up"
  /\ UNCHANGED <<row, leaseVars, trouble, jobVars, workerVars, mishaps>>

-----------------------------------------------------------------------------
Requests ==
  \/ \E v \in Voices : Upload(v) \/ DeleteVoice(v)
  \/ \E j \in Jobs, e \in Engines, v \in Voices : CreateJob(j, e, v)

Attempt ==
  \/ ReadClip \/ ReadClipFails \/ StoreTranscript \/ StoreFails
  \/ \E d \in Delays : NotHeard(d) \/ (\E v \in Voices : Heard(v, d))

Submission ==
  \/ EnsureNothing \/ EnsureClaims \/ EnsureRefused
  \/ BuildClip \/ BuildPlain \/ Pair \/ PairFails \/ ReadCancelled \/ PostCancelled
  \/ \E d \in Delays : Accepted(d) \/ Refused(d)

Worker ==
  \/ \E d \in Delays : Tick(d)
  \/ TickNext \/ TickEnds \/ Submission \/ Attempt \/ ScanEnds
  \/ \E v \in Voices : Scan(v)

Process == Stop \/ Crash \/ Exit \/ Restart

Next == Requests \/ Worker \/ Process

Spec == Init /\ [][Next]_vars
-----------------------------------------------------------------------------
(* Safety.                                                                  *)

\* Whisper is asked about one voice at most MaxAttempts times in any period of
\* Expiry, whoever asks, the scan or a job, and although an expired lease
\* starts its count again (worker.go claimTranscription).
RateBounded == \A v \in Voices : Cardinality(calls[v]) <= MaxAttempts

\* A job fails for its transcript only if it needs one and an attempt for its
\* voice failed or was cut short, or the voice is gone: a lease never outlives
\* an attempt that went well.  At the builder it fails only for a voice that is
\* gone (worker.go ensureTranscript, claimTranscription, buildHiggsInput).
FailedForCause ==
  \A j \in Jobs :
    /\ error[j] = "transcript" =>
         /\ engine[j] # "moss"
         /\ asked[j] \in trouble \/ row[asked[j]] = "deleted"
    /\ error[j] = "voice" => row[asked[j]] = "deleted"

\* What RunPod renders is in the voice that was asked for: a request without a
\* clip means that the voice is gone, and to Higgs and Breeze a clip goes only
\* with its transcript (worker.go buildInput, buildHiggsInput, buildBreezeInput).
ClipIsPaired ==
  \A j \in Jobs :
    /\ sent[j] = "plain" => engine[j] # "breeze" /\ row[asked[j]] = "deleted"
    /\ sent[j] = "clip" => engine[j] = "moss"
    /\ sent[j] = "paired" => engine[j] # "moss" /\ row[asked[j]] \in {"ready", "deleted"}

-----------------------------------------------------------------------------
(* Liveness.  The worker goes on and time with it, the process is started   *)
(* again, and Whisper, asked about a clip with speech again and again, some *)
(* time answers.  It may hang or fail for ever on the other clips.          *)

Fairness ==
  /\ WF_vars(Worker)
  /\ SF_vars(\E d \in Delays \ {0} : Tick(d))
  /\ \A v \in Speech : SF_vars(\E d \in Delays : Heard(v, d))
  /\ WF_vars(Exit) /\ WF_vars(Restart)

\* Unless two clips that Whisper never hears stay in the library, every clip
\* with speech gets its transcript or is deleted: "one bad clip cannot starve
\* later uploads" (worker.go:922).  Two can: each holds the worker for Timeout, so
\* that the first lease has expired, and its clip is the oldest to be claimed
\* again, before a third clip has its turn (worker.go:984).
EveryClipHeard ==
  <>[](Cardinality(Pending \ Speech) <= 1)
    => \A v \in Speech \cap Voices : row[v] = "pending" ~> row[v] # "pending"
=============================================================================
