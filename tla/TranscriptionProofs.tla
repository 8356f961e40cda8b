------------------------ MODULE TranscriptionProofs -------------------------
(***************************************************************************)
(* Proofs about Transcription, for any number of voices and jobs, any      *)
(* limit of attempts, backoffs, timeout and expiry, and any delays.  Each  *)
(* conjunct of the inductive invariant IInv has a lemma with one step per  *)
(* action; the theorems are at the end.                                    *)
(***************************************************************************)
EXTENDS Transcription, FiniteSetTheorems, TLAPS

\* TypeOK in three parts: the voices and their leases, the jobs, the worker.
LeaseTypes ==
  /\ row \in [Voices -> {"absent", "pending", "ready", "deleted"}]
  /\ attempts \in [Voices -> 0..MaxAttempts]
  /\ age \in [Voices -> 0..Expiry]
  /\ calls \in [Voices -> SUBSET Ages]
  /\ trouble \subseteq Voices

JobTypes ==
  /\ status \in [Jobs -> {"absent", "queued", "sent", "failed"}]
  /\ engine \in [Jobs -> {"moss", "higgs", "breeze"}]
  /\ voice \in [Jobs -> Voices \cup {0}]
  /\ asked \in [Jobs -> Voices \cup {0}]
  /\ tries \in [Jobs -> 0..MaxTries]
  /\ error \in [Jobs -> {"none", "transcript", "voice", "runpod", "stopped"}]
  /\ sent \in [Jobs -> {"none", "plain", "clip", "paired"}]

WorkerTypes ==
  /\ wpc \in {"idle", "next", "ensure", "read", "call", "store", "build",
              "pair", "post", "scan"}
  /\ wbatch \subseteq Jobs
  /\ wseen \in [Jobs -> Voices \cup {0}]
  /\ wjob \in Jobs \cup {0}
  /\ wvoice \in Voices \cup {0}
  /\ wref \in {"plain", "clip", "paired"}
  /\ proc \in {"up", "stopping", "down"}
  /\ mishaps \in 0..MaxMishaps

\* The three parts are the type invariant.
LEMMA TypeParts == TypeOK <=> LeaseTypes /\ JobTypes /\ WorkerTypes
BY DEF TypeOK, LeaseTypes, JobTypes, WorkerTypes

Gone(j) == row[asked[j]] = "deleted"

\* A request to RunPod that is fit to be sent for j.
Fit(j, what) ==
  /\ what = "plain" => engine[j] # "breeze" /\ Gone(j)
  /\ what = "clip" => engine[j] = "moss"
  /\ what = "paired" => engine[j] # "moss" /\ row[asked[j]] \in {"ready", "deleted"}

\* What each place of the worker stands for: at the builders a clip that needs a
\* transcript has it or is gone, and what is posted is fit.
Places ==
  /\ wjob # 0 => /\ status[wjob] # "absent" /\ wvoice \in {0, asked[wjob]}
                 /\ wvoice = 0 => Gone(wjob)
  /\ wpc \in {"idle", "next", "scan"} => wjob = 0 /\ wvoice = 0
  /\ wpc \in {"ensure", "build", "pair", "post"} => wjob # 0
  /\ wpc \in {"read", "call", "store"} =>
       wvoice # 0 /\ row[wvoice] # "absent" /\ (wjob # 0 => engine[wjob] # "moss")
  /\ wpc = "pair" => NeedsTranscript
  /\ wpc \in {"build", "pair"} /\ NeedsTranscript => row[wvoice] \in {"ready", "deleted"}
  /\ wpc # "post" => wref = "plain"
  /\ wpc = "post" => Fit(wjob, wref)

\* Time passing keeps the types of the leases.
LEMMA ElapseTypes ==
  ASSUME LeaseTypes, NEW d \in Delays, Elapse(d)
  PROVE  /\ attempts' \in [Voices -> 0..MaxAttempts]
         /\ age' \in [Voices -> 0..Expiry]
         /\ calls' \in [Voices -> SUBSET Ages]
<1>1. d \in Nat /\ Expiry \in Nat BY TranscriptionAssumption
<1>2. attempts' = attempts BY DEF Elapse
<1>3. calls' = [v \in Voices |-> {a + d : a \in calls[v]} \cap Ages] BY DEF Elapse
<1>4. age' = [v \in Voices |-> IF attempts[v] = 0 THEN 0
                              ELSE IF age[v] + d < Expiry THEN age[v] + d ELSE Expiry]
  BY DEF Elapse
<1>5. \A v \in Voices : age[v] \in 0..Expiry BY DEF LeaseTypes
<1>6. age' \in [Voices -> 0..Expiry] BY <1>1, <1>4, <1>5
<1> QED BY <1>2, <1>3, <1>6 DEF LeaseTypes

\* No step gives a row or a lease a wrong type: no lease counts past the limit.
LEMMA LeaseTypesStep ==
  ASSUME LeaseTypes, WorkerTypes, Places, Next
  PROVE  LeaseTypes'
<1> USE TranscriptionAssumption DEF LeaseTypes, WorkerTypes, Ages, leaseVars
<1>1. ASSUME NEW v \in Voices, Upload(v) PROVE LeaseTypes'
  BY <1>1 DEF Upload
<1>2. ASSUME NEW v \in Voices, DeleteVoice(v) PROVE LeaseTypes'
  BY <1>2 DEF DeleteVoice
<1>3. ASSUME NEW j \in Jobs, NEW e \in Engines, NEW v \in Voices, CreateJob(j, e, v)
    PROVE LeaseTypes'
  BY <1>3 DEF CreateJob
<1>4. ASSUME NEW d \in Delays, Tick(d) PROVE LeaseTypes'
  BY <1>4, ElapseTypes DEF Tick
<1>5. CASE TickNext BY <1>5 DEF TickNext
<1>6. CASE TickEnds BY <1>6 DEF TickEnds, Goes
<1>7. CASE Submission
  <2>1. CASE EnsureNothing BY <2>1 DEF EnsureNothing, Goes, CanRead, NeedsTranscript
  <2>2. CASE EnsureClaims
    BY <2>2 DEF EnsureClaims, Claim, Goes, NeedsTranscript, Claimable
  <2>3. CASE EnsureRefused BY <2>3 DEF EnsureRefused, Fail, SubmitEnds, NeedsTranscript
  <2>4. CASE BuildClip BY <2>4 DEF BuildClip, Present
  <2>5. CASE BuildPlain BY <2>5 DEF BuildPlain, Fail, Goes, SubmitEnds, Present, CanRead
  <2>6. CASE Pair BY <2>6 DEF Pair
  <2>7. CASE PairFails BY <2>7 DEF PairFails, Fail, SubmitEnds
  <2>8. CASE ReadCancelled BY <2>8 DEF ReadCancelled, Fail, SubmitEnds
  <2>9. CASE PostCancelled BY <2>9 DEF PostCancelled, Fail, SubmitEnds
  <2>10. ASSUME NEW d \in Delays, Accepted(d) PROVE LeaseTypes'
    BY <2>10, ElapseTypes DEF Accepted
  <2>11. ASSUME NEW d \in Delays, Refused(d) PROVE LeaseTypes'
    BY <2>11, ElapseTypes DEF Refused
  <2> QED BY <1>7, <2>1, <2>2, <2>3, <2>4, <2>5, <2>6, <2>7, <2>8, <2>9, <2>10, <2>11
      DEF Submission
<1>8. CASE Attempt
  <2>1. CASE ReadClip BY <2>1 DEF ReadClip, Goes, Present
  <2>2. CASE ReadClipFails
    BY <2>2 DEF ReadClipFails, AttemptFails, Idle, Fail, SubmitEnds, Places
  <2>3. CASE StoreTranscript
    <3>1. /\ row' = [row EXCEPT ![wvoice] = "ready"] /\ UNCHANGED <<calls, trouble>>
          /\ attempts' = [attempts EXCEPT ![wvoice] = 0] /\ age' = [age EXCEPT ![wvoice]
              = 0]
      BY <2>3 DEF StoreTranscript, ClearClaim
    <3>2. 0 \in 0..MaxAttempts /\ 0 \in 0..Expiry OBVIOUS
    <3> QED BY <3>1, <3>2
  <2>4. CASE StoreFails
    BY <2>4 DEF StoreFails, AttemptFails, Idle, Fail, SubmitEnds, Mishap, Places
  <2>5. ASSUME NEW d \in Delays, NotHeard(d) PROVE LeaseTypes'
    <3>1. wvoice \in Voices BY <2>5 DEF NotHeard, Places
    <3>2. trouble' \subseteq Voices /\ UNCHANGED row BY <2>5, <3>1 DEF NotHeard,
        AttemptFails
    <3>3. Elapse(d) BY <2>5 DEF NotHeard
    <3> QED BY <3>2, <3>3, ElapseTypes
  <2>6. ASSUME NEW v \in Voices, NEW d \in Delays, Heard(v, d) PROVE LeaseTypes'
    BY <2>6, ElapseTypes DEF Heard
  <2> QED BY <1>8, <2>1, <2>2, <2>3, <2>4, <2>5, <2>6 DEF Attempt
<1>9. ASSUME NEW v \in Voices, Scan(v) PROVE LeaseTypes'
  BY <1>9 DEF Scan, Claim, Claimable, Listed, Pending
<1>10. CASE ScanEnds BY <1>10 DEF ScanEnds, Idle
<1>11. CASE Process
  <2>1. CASE Stop BY <2>1 DEF Stop, Mishap
  <2>2. CASE Crash BY <2>2 DEF Crash, Mishap, Forget, Idle
  <2>3. CASE Exit BY <2>3 DEF Exit, Forget, Idle
  <2>4. CASE Restart BY <2>4 DEF Restart
  <2> QED BY <1>11, <2>1, <2>2, <2>3, <2>4 DEF Process
<1> QED BY <1>1, <1>2, <1>3, <1>4, <1>5, <1>6, <1>7, <1>8, <1>9, <1>10, <1>11 DEF Next,
    Requests, Worker

\* No step gives a job a wrong type.
LEMMA JobTypesStep ==
  ASSUME JobTypes, WorkerTypes, Next
  PROVE  JobTypes'
<1> USE TranscriptionAssumption DEF JobTypes, WorkerTypes, jobVars
<1>1. ASSUME NEW v \in Voices, Upload(v) PROVE JobTypes'
  BY <1>1 DEF Upload
<1>2. ASSUME NEW v \in Voices, DeleteVoice(v) PROVE JobTypes'
  BY <1>2 DEF DeleteVoice
<1>3. ASSUME NEW j \in Jobs, NEW e \in Engines, NEW v \in Voices, CreateJob(j, e, v)
    PROVE JobTypes'
  BY <1>3 DEF CreateJob
<1>4. ASSUME NEW d \in Delays, Tick(d) PROVE JobTypes'
  BY <1>4 DEF Tick, Elapse
<1>5. CASE TickNext BY <1>5 DEF TickNext
<1>6. CASE TickEnds BY <1>6 DEF TickEnds, Goes
<1>7. CASE Submission
  <2>1. CASE EnsureNothing BY <2>1 DEF EnsureNothing, Goes, CanRead, NeedsTranscript
  <2>2. CASE EnsureClaims BY <2>2 DEF EnsureClaims, Claim, Goes, NeedsTranscript
  <2>3. CASE EnsureRefused BY <2>3 DEF EnsureRefused, Fail, SubmitEnds, NeedsTranscript
  <2>4. CASE BuildClip BY <2>4 DEF BuildClip, Present
  <2>5. CASE BuildPlain BY <2>5 DEF BuildPlain, Fail, Goes, SubmitEnds, Present, CanRead
  <2>6. CASE Pair BY <2>6 DEF Pair
  <2>7. CASE PairFails BY <2>7 DEF PairFails, Fail, SubmitEnds
  <2>8. CASE ReadCancelled BY <2>8 DEF ReadCancelled, Fail, SubmitEnds
  <2>9. CASE PostCancelled BY <2>9 DEF PostCancelled, Fail, SubmitEnds
  <2>10. ASSUME NEW d \in Delays, Accepted(d) PROVE JobTypes'
    BY <2>10 DEF Accepted, Elapse, SubmitEnds
  <2>11. ASSUME NEW d \in Delays, Refused(d) PROVE JobTypes'
    BY <2>11 DEF Refused, Elapse, Fail, SubmitEnds
  <2> QED BY <1>7, <2>1, <2>2, <2>3, <2>4, <2>5, <2>6, <2>7, <2>8, <2>9, <2>10, <2>11
      DEF Submission
<1>8. CASE Attempt
  <2>1. CASE ReadClip BY <2>1 DEF ReadClip, Goes, Present
  <2>2. CASE ReadClipFails BY <2>2 DEF ReadClipFails, AttemptFails, Idle, Fail, SubmitEnds
  <2>3. CASE StoreTranscript
    BY <2>3 DEF StoreTranscript, ClearClaim, AttemptSucceeds, Idle, Goes, Present
  <2>4. CASE StoreFails
    BY <2>4 DEF StoreFails, AttemptFails, Idle, Fail, SubmitEnds, Mishap
  <2>5. ASSUME NEW d \in Delays, NotHeard(d) PROVE JobTypes'
    BY <2>5 DEF NotHeard, Elapse, AttemptFails, Idle, Fail, SubmitEnds
  <2>6. ASSUME NEW v \in Voices, NEW d \in Delays, Heard(v, d) PROVE JobTypes'
    BY <2>6 DEF Heard, Elapse, Goes
  <2> QED BY <1>8, <2>1, <2>2, <2>3, <2>4, <2>5, <2>6 DEF Attempt
<1>9. ASSUME NEW v \in Voices, Scan(v) PROVE JobTypes'
  BY <1>9 DEF Scan, Claim
<1>10. CASE ScanEnds BY <1>10 DEF ScanEnds, Idle
<1>11. CASE Process
  <2>1. CASE Stop BY <2>1 DEF Stop, Mishap
  <2>2. CASE Crash BY <2>2 DEF Crash, Mishap, Forget, Idle
  <2>3. CASE Exit BY <2>3 DEF Exit, Forget, Idle
  <2>4. CASE Restart BY <2>4 DEF Restart
  <2> QED BY <1>11, <2>1, <2>2, <2>3, <2>4 DEF Process
<1> QED BY <1>1, <1>2, <1>3, <1>4, <1>5, <1>6, <1>7, <1>8, <1>9, <1>10, <1>11 DEF Next,
    Requests, Worker

\* No step gives the worker or the process a wrong type.
LEMMA WorkerTypesStep ==
  ASSUME JobTypes, WorkerTypes, Next
  PROVE  WorkerTypes'
<1> USE TranscriptionAssumption DEF WorkerTypes, workerVars, procVars
<1>1. ASSUME NEW v \in Voices, Upload(v) PROVE WorkerTypes'
  BY <1>1 DEF Upload
<1>2. ASSUME NEW v \in Voices, DeleteVoice(v) PROVE WorkerTypes'
  BY <1>2 DEF DeleteVoice
<1>3. ASSUME NEW j \in Jobs, NEW e \in Engines, NEW v \in Voices, CreateJob(j, e, v)
    PROVE WorkerTypes'
  BY <1>3 DEF CreateJob
<1>4. ASSUME NEW d \in Delays, Tick(d) PROVE WorkerTypes'
  BY <1>4 DEF Tick, Elapse, JobTypes
<1>5. CASE TickNext BY <1>5 DEF TickNext
<1>6. CASE TickEnds BY <1>6 DEF TickEnds, Goes
<1>7. CASE Submission
  <2>1. CASE EnsureNothing BY <2>1 DEF EnsureNothing, Goes, CanRead, NeedsTranscript
  <2>2. CASE EnsureClaims BY <2>2 DEF EnsureClaims, Claim, Goes, NeedsTranscript
  <2>3. CASE EnsureRefused BY <2>3 DEF EnsureRefused, Fail, SubmitEnds, NeedsTranscript
  <2>4. CASE BuildClip BY <2>4 DEF BuildClip, Present
  <2>5. CASE BuildPlain BY <2>5 DEF BuildPlain, Fail, Goes, SubmitEnds, Present, CanRead
  <2>6. CASE Pair BY <2>6 DEF Pair
  <2>7. CASE PairFails BY <2>7 DEF PairFails, Fail, SubmitEnds
  <2>8. CASE ReadCancelled BY <2>8 DEF ReadCancelled, Fail, SubmitEnds
  <2>9. CASE PostCancelled BY <2>9 DEF PostCancelled, Fail, SubmitEnds
  <2>10. ASSUME NEW d \in Delays, Accepted(d) PROVE WorkerTypes'
    BY <2>10 DEF Accepted, Elapse, SubmitEnds
  <2>11. ASSUME NEW d \in Delays, Refused(d) PROVE WorkerTypes'
    BY <2>11 DEF Refused, Elapse, Fail, SubmitEnds
  <2> QED BY <1>7, <2>1, <2>2, <2>3, <2>4, <2>5, <2>6, <2>7, <2>8, <2>9, <2>10, <2>11
      DEF Submission
<1>8. CASE Attempt
  <2>1. CASE ReadClip BY <2>1 DEF ReadClip, Goes, Present
  <2>2. CASE ReadClipFails BY <2>2 DEF ReadClipFails, AttemptFails, Idle, Fail, SubmitEnds
  <2>3. CASE StoreTranscript
    BY <2>3 DEF StoreTranscript, ClearClaim, AttemptSucceeds, Idle, Goes, Present
  <2>4. CASE StoreFails
    BY <2>4 DEF StoreFails, AttemptFails, Idle, Fail, SubmitEnds, Mishap
  <2>5. ASSUME NEW d \in Delays, NotHeard(d) PROVE WorkerTypes'
    BY <2>5 DEF NotHeard, Elapse, AttemptFails, Idle, Fail, SubmitEnds
  <2>6. ASSUME NEW v \in Voices, NEW d \in Delays, Heard(v, d) PROVE WorkerTypes'
    BY <2>6 DEF Heard, Elapse, Goes
  <2> QED BY <1>8, <2>1, <2>2, <2>3, <2>4, <2>5, <2>6 DEF Attempt
<1>9. ASSUME NEW v \in Voices, Scan(v) PROVE WorkerTypes'
  BY <1>9 DEF Scan, Claim
<1>10. CASE ScanEnds BY <1>10 DEF ScanEnds, Idle
<1>11. CASE Process
  <2>1. CASE Stop BY <2>1 DEF Stop, Mishap
  <2>2. CASE Crash BY <2>2 DEF Crash, Mishap, Forget, Idle
  <2>3. CASE Exit BY <2>3 DEF Exit, Forget, Idle
  <2>4. CASE Restart BY <2>4 DEF Restart
  <2> QED BY <1>11, <2>1, <2>2, <2>3, <2>4 DEF Process
<1> QED BY <1>1, <1>2, <1>3, <1>4, <1>5, <1>6, <1>7, <1>8, <1>9, <1>10, <1>11 DEF Next,
    Requests, Worker

-----------------------------------------------------------------------------
(* What the worker knows of the voice it works for.                         *)

\* What a row and what a tick read of it say of the voice that was asked for.
Links ==
  /\ \A j \in Jobs :
       IF status[j] = "absent" THEN error[j] = "none" /\ sent[j] = "none"
       ELSE /\ asked[j] \in Voices /\ row[asked[j]] # "absent"
            /\ voice[j] \in {0, asked[j]} /\ (voice[j] = 0 => Gone(j))
  /\ \A j \in wbatch : /\ status[j] # "absent"
                       /\ wseen[j] \in {0, asked[j]} /\ (wseen[j] = 0 => Gone(j))

\* No step loses the voice of a job, but for its deletion.
LEMMA LinksStep ==
  ASSUME LeaseTypes, JobTypes, WorkerTypes, Places, Links, Next
  PROVE  Links'
<1> USE DEF LeaseTypes, JobTypes, WorkerTypes, Places, Links, Gone, jobVars, workerVars
<1>1. ASSUME NEW v \in Voices, Upload(v) PROVE Links'
  BY <1>1 DEF Upload
<1>2. ASSUME NEW v \in Voices, DeleteVoice(v) PROVE Links'
  BY <1>2 DEF DeleteVoice
<1>3. ASSUME NEW j \in Jobs, NEW e \in Engines, NEW v \in Voices, CreateJob(j, e, v)
    PROVE Links'
  BY <1>3 DEF CreateJob, Present, Voices
<1>4. ASSUME NEW d \in Delays, Tick(d) PROVE Links'
  BY <1>4 DEF Tick, Elapse
<1>5. CASE TickNext BY <1>5 DEF TickNext
<1>6. CASE TickEnds BY <1>6 DEF TickEnds, Goes
<1>7. CASE Submission
  <2>1. CASE EnsureNothing BY <2>1 DEF EnsureNothing, Goes, CanRead, NeedsTranscript
  <2>2. CASE EnsureClaims BY <2>2 DEF EnsureClaims, Claim, Goes, NeedsTranscript
  <2>3. CASE EnsureRefused BY <2>3 DEF EnsureRefused, Fail, SubmitEnds, NeedsTranscript
  <2>4. CASE BuildClip BY <2>4 DEF BuildClip, Present
  <2>5. CASE BuildPlain BY <2>5 DEF BuildPlain, Fail, Goes, SubmitEnds, Present, CanRead
  <2>6. CASE Pair BY <2>6 DEF Pair
  <2>7. CASE PairFails BY <2>7 DEF PairFails, Fail, SubmitEnds
  <2>8. CASE ReadCancelled BY <2>8 DEF ReadCancelled, Fail, SubmitEnds
  <2>9. CASE PostCancelled BY <2>9 DEF PostCancelled, Fail, SubmitEnds
  <2>10. ASSUME NEW d \in Delays, Accepted(d) PROVE Links'
    BY <2>10 DEF Accepted, Elapse, SubmitEnds
  <2>11. ASSUME NEW d \in Delays, Refused(d) PROVE Links'
    BY <2>11 DEF Refused, Elapse, Fail, SubmitEnds
  <2> QED BY <1>7, <2>1, <2>2, <2>3, <2>4, <2>5, <2>6, <2>7, <2>8, <2>9, <2>10, <2>11
      DEF Submission
<1>8. CASE Attempt
  <2>1. CASE ReadClip BY <2>1 DEF ReadClip, Goes, Present
  <2>2. CASE ReadClipFails BY <2>2 DEF ReadClipFails, AttemptFails, Idle, Fail, SubmitEnds
  <2>3. CASE StoreTranscript
    BY <2>3 DEF StoreTranscript, ClearClaim, AttemptSucceeds, Idle, Goes, Present
  <2>4. CASE StoreFails
    BY <2>4 DEF StoreFails, AttemptFails, Idle, Fail, SubmitEnds, Mishap
  <2>5. ASSUME NEW d \in Delays, NotHeard(d) PROVE Links'
    BY <2>5 DEF NotHeard, Elapse, AttemptFails, Idle, Fail, SubmitEnds
  <2>6. ASSUME NEW v \in Voices, NEW d \in Delays, Heard(v, d) PROVE Links'
    BY <2>6 DEF Heard, Elapse, Goes
  <2> QED BY <1>8, <2>1, <2>2, <2>3, <2>4, <2>5, <2>6 DEF Attempt
<1>9. ASSUME NEW v \in Voices, Scan(v) PROVE Links'
  BY <1>9 DEF Scan, Claim
<1>10. CASE ScanEnds BY <1>10 DEF ScanEnds, Idle
<1>11. CASE Process
  <2>1. CASE Stop BY <2>1 DEF Stop, Mishap
  <2>2. CASE Crash BY <2>2 DEF Crash, Mishap, Forget, Idle
  <2>3. CASE Exit BY <2>3 DEF Exit, Forget, Idle
  <2>4. CASE Restart BY <2>4 DEF Restart
  <2> QED BY <1>11, <2>1, <2>2, <2>3, <2>4 DEF Process
<1> QED BY <1>1, <1>2, <1>3, <1>4, <1>5, <1>6, <1>7, <1>8, <1>9, <1>10, <1>11 DEF Next,
    Requests, Worker

\* No step leads the worker to a place with less than it needs there.
LEMMA PlacesStep ==
  ASSUME LeaseTypes, JobTypes, WorkerTypes, Links, Places, Next
  PROVE  Places'
<1> USE DEF LeaseTypes, JobTypes, WorkerTypes, Links, Places, Gone, Fit, NeedsTranscript,
            jobVars, workerVars
<1>1. ASSUME NEW v \in Voices, Upload(v) PROVE Places'
  BY <1>1 DEF Upload
<1>2. ASSUME NEW v \in Voices, DeleteVoice(v) PROVE Places'
  BY <1>2 DEF DeleteVoice
<1>3. ASSUME NEW j \in Jobs, NEW e \in Engines, NEW v \in Voices, CreateJob(j, e, v)
    PROVE Places'
  BY <1>3 DEF CreateJob
<1>4. ASSUME NEW d \in Delays, Tick(d) PROVE Places'
  BY <1>4 DEF Tick, Elapse
<1>5. CASE TickNext BY <1>5 DEF TickNext, Jobs
<1>6. CASE TickEnds BY <1>6 DEF TickEnds, Goes
<1>7. CASE Submission
  <2>1. CASE EnsureNothing BY <2>1 DEF EnsureNothing, Goes, CanRead, NeedsTranscript
  <2>2. CASE EnsureClaims BY <2>2 DEF EnsureClaims, Claim, Goes, NeedsTranscript
  <2>3. CASE EnsureRefused BY <2>3 DEF EnsureRefused, Fail, SubmitEnds, NeedsTranscript
  <2>4. CASE BuildClip BY <2>4 DEF BuildClip, Present
  <2>5. CASE BuildPlain BY <2>5 DEF BuildPlain, Fail, Goes, SubmitEnds, Present, CanRead
  <2>6. CASE Pair BY <2>6 DEF Pair
  <2>7. CASE PairFails BY <2>7 DEF PairFails, Fail, SubmitEnds
  <2>8. CASE ReadCancelled BY <2>8 DEF ReadCancelled, Fail, SubmitEnds
  <2>9. CASE PostCancelled BY <2>9 DEF PostCancelled, Fail, SubmitEnds
  <2>10. ASSUME NEW d \in Delays, Accepted(d) PROVE Places'
    BY <2>10 DEF Accepted, Elapse, SubmitEnds
  <2>11. ASSUME NEW d \in Delays, Refused(d) PROVE Places'
    BY <2>11 DEF Refused, Elapse, Fail, SubmitEnds
  <2> QED BY <1>7, <2>1, <2>2, <2>3, <2>4, <2>5, <2>6, <2>7, <2>8, <2>9, <2>10, <2>11
      DEF Submission
<1>8. CASE Attempt
  <2>1. CASE ReadClip BY <2>1 DEF ReadClip, Goes, Present
  <2>2. CASE ReadClipFails BY <2>2 DEF ReadClipFails, AttemptFails, Idle, Fail, SubmitEnds
  <2>3. CASE StoreTranscript
    BY <2>3 DEF StoreTranscript, ClearClaim, AttemptSucceeds, Idle, Goes, Present
  <2>4. CASE StoreFails
    BY <2>4 DEF StoreFails, AttemptFails, Idle, Fail, SubmitEnds, Mishap
  <2>5. ASSUME NEW d \in Delays, NotHeard(d) PROVE Places'
    BY <2>5 DEF NotHeard, Elapse, AttemptFails, Idle, Fail, SubmitEnds
  <2>6. ASSUME NEW v \in Voices, NEW d \in Delays, Heard(v, d) PROVE Places'
    BY <2>6 DEF Heard, Elapse, Goes
  <2> QED BY <1>8, <2>1, <2>2, <2>3, <2>4, <2>5, <2>6 DEF Attempt
<1>9. ASSUME NEW v \in Voices, Scan(v) PROVE Places'
  BY <1>9 DEF Scan, Claim, Listed, Pending, Voices
<1>10. CASE ScanEnds BY <1>10 DEF ScanEnds, Idle
<1>11. CASE Process
  <2>1. CASE Stop BY <2>1 DEF Stop, Mishap
  <2>2. CASE Crash BY <2>2 DEF Crash, Mishap, Forget, Idle
  <2>3. CASE Exit BY <2>3 DEF Exit, Forget, Idle
  <2>4. CASE Restart BY <2>4 DEF Restart
  <2> QED BY <1>11, <2>1, <2>2, <2>3, <2>4 DEF Process
<1> QED BY <1>1, <1>2, <1>3, <1>4, <1>5, <1>6, <1>7, <1>8, <1>9, <1>10, <1>11 DEF Next,
    Requests, Worker

\* A lease of a pending voice is the worker's own or the trace of a failed attempt.
Leases ==
  \A v \in Voices : attempts[v] # 0 =>
    /\ row[v] # "absent"
    /\ row[v] = "pending" => \/ v \in trouble
                             \/ wpc \in {"read", "call", "store"} /\ wvoice = v

\* No lease outlives an attempt that went well.
LEMMA LeasesStep ==
  ASSUME LeaseTypes, JobTypes, WorkerTypes, Places, Leases, Next
  PROVE  Leases'
<1> USE DEF LeaseTypes, JobTypes, WorkerTypes, Places, Leases, leaseVars, workerVars
<1>1. ASSUME NEW v \in Voices, Upload(v) PROVE Leases'
  BY <1>1 DEF Upload
<1>2. ASSUME NEW v \in Voices, DeleteVoice(v) PROVE Leases'
  BY <1>2 DEF DeleteVoice
<1>3. ASSUME NEW j \in Jobs, NEW e \in Engines, NEW v \in Voices, CreateJob(j, e, v)
    PROVE Leases'
  BY <1>3 DEF CreateJob
<1>4. ASSUME NEW d \in Delays, Tick(d) PROVE Leases'
  BY <1>4 DEF Tick, Elapse
<1>5. CASE TickNext BY <1>5 DEF TickNext
<1>6. CASE TickEnds BY <1>6 DEF TickEnds, Goes
<1>7. CASE Submission
  <2>1. CASE EnsureNothing BY <2>1 DEF EnsureNothing, Goes, CanRead, NeedsTranscript
  <2>2. CASE EnsureClaims BY <2>2 DEF EnsureClaims, Claim, Goes, NeedsTranscript
  <2>3. CASE EnsureRefused BY <2>3 DEF EnsureRefused, Fail, SubmitEnds, NeedsTranscript
  <2>4. CASE BuildClip BY <2>4 DEF BuildClip, Present
  <2>5. CASE BuildPlain BY <2>5 DEF BuildPlain, Fail, Goes, SubmitEnds, Present, CanRead
  <2>6. CASE Pair BY <2>6 DEF Pair
  <2>7. CASE PairFails BY <2>7 DEF PairFails, Fail, SubmitEnds
  <2>8. CASE ReadCancelled BY <2>8 DEF ReadCancelled, Fail, SubmitEnds
  <2>9. CASE PostCancelled BY <2>9 DEF PostCancelled, Fail, SubmitEnds
  <2>10. ASSUME NEW d \in Delays, Accepted(d) PROVE Leases'
    BY <2>10 DEF Accepted, Elapse, SubmitEnds
  <2>11. ASSUME NEW d \in Delays, Refused(d) PROVE Leases'
    BY <2>11 DEF Refused, Elapse, Fail, SubmitEnds
  <2> QED BY <1>7, <2>1, <2>2, <2>3, <2>4, <2>5, <2>6, <2>7, <2>8, <2>9, <2>10, <2>11
      DEF Submission
<1>8. CASE Attempt
  <2>1. CASE ReadClip BY <2>1 DEF ReadClip, Goes, Present
  <2>2. CASE ReadClipFails BY <2>2 DEF ReadClipFails, AttemptFails, Idle, Fail, SubmitEnds
  <2>3. CASE StoreTranscript
    BY <2>3 DEF StoreTranscript, ClearClaim, AttemptSucceeds, Idle, Goes, Present
  <2>4. CASE StoreFails
    BY <2>4 DEF StoreFails, AttemptFails, Idle, Fail, SubmitEnds, Mishap
  <2>5. ASSUME NEW d \in Delays, NotHeard(d) PROVE Leases'
    BY <2>5 DEF NotHeard, Elapse, AttemptFails, Idle, Fail, SubmitEnds
  <2>6. ASSUME NEW v \in Voices, NEW d \in Delays, Heard(v, d) PROVE Leases'
    BY <2>6 DEF Heard, Elapse, Goes
  <2> QED BY <1>8, <2>1, <2>2, <2>3, <2>4, <2>5, <2>6 DEF Attempt
<1>9. ASSUME NEW v \in Voices, Scan(v) PROVE Leases'
  BY <1>9 DEF Scan, Claim, Listed, Pending
<1>10. CASE ScanEnds BY <1>10 DEF ScanEnds, Idle
<1>11. CASE Process
  <2>1. CASE Stop BY <2>1 DEF Stop, Mishap
  <2>2. CASE Crash BY <2>2 DEF Crash, Mishap, Forget, Idle
  <2>3. CASE Exit BY <2>3 DEF Exit, Forget, Idle
  <2>4. CASE Restart BY <2>4 DEF Restart
  <2> QED BY <1>11, <2>1, <2>2, <2>3, <2>4 DEF Process
<1> QED BY <1>1, <1>2, <1>3, <1>4, <1>5, <1>6, <1>7, <1>8, <1>9, <1>10, <1>11 DEF Next,
    Requests, Worker

\* No step fails a job without a cause.
LEMMA CauseStep ==
  ASSUME LeaseTypes, JobTypes, WorkerTypes, Links, Places, Leases, FailedForCause, Next
  PROVE  FailedForCause'
<1> USE DEF LeaseTypes, JobTypes, WorkerTypes, Links, Places, FailedForCause, Gone, jobVars
<1>1. ASSUME NEW v \in Voices, Upload(v) PROVE FailedForCause'
  BY <1>1 DEF Upload
<1>2. ASSUME NEW v \in Voices, DeleteVoice(v) PROVE FailedForCause'
  BY <1>2 DEF DeleteVoice
<1>3. ASSUME NEW j \in Jobs, NEW e \in Engines, NEW v \in Voices, CreateJob(j, e, v)
    PROVE FailedForCause'
  BY <1>3 DEF CreateJob
<1>4. ASSUME NEW d \in Delays, Tick(d) PROVE FailedForCause'
  BY <1>4 DEF Tick, Elapse
<1>5. CASE TickNext BY <1>5 DEF TickNext
<1>6. CASE TickEnds BY <1>6 DEF TickEnds, Goes
<1>7. CASE Submission
  <2>1. CASE EnsureNothing BY <2>1 DEF EnsureNothing, Goes, CanRead, NeedsTranscript
  <2>2. CASE EnsureClaims BY <2>2 DEF EnsureClaims, Claim, Goes, NeedsTranscript
  <2>3. CASE EnsureRefused
    BY <2>3 DEF EnsureRefused, Fail, SubmitEnds, NeedsTranscript, Leases, Claimable
  <2>4. CASE BuildClip BY <2>4 DEF BuildClip, Present
  <2>5. CASE BuildPlain BY <2>5 DEF BuildPlain, Fail, Goes, SubmitEnds, Present, CanRead
  <2>6. CASE Pair BY <2>6 DEF Pair
  <2>7. CASE PairFails BY <2>7 DEF PairFails, Fail, SubmitEnds, NeedsTranscript
  <2>8. CASE ReadCancelled BY <2>8 DEF ReadCancelled, Fail, SubmitEnds
  <2>9. CASE PostCancelled BY <2>9 DEF PostCancelled, Fail, SubmitEnds
  <2>10. ASSUME NEW d \in Delays, Accepted(d) PROVE FailedForCause'
    BY <2>10 DEF Accepted, Elapse, SubmitEnds
  <2>11. ASSUME NEW d \in Delays, Refused(d) PROVE FailedForCause'
    BY <2>11 DEF Refused, Elapse, Fail, SubmitEnds
  <2> QED BY <1>7, <2>1, <2>2, <2>3, <2>4, <2>5, <2>6, <2>7, <2>8, <2>9, <2>10, <2>11
      DEF Submission
<1>8. CASE Attempt
  <2>1. CASE ReadClip BY <2>1 DEF ReadClip, Goes, Present
  <2>2. CASE ReadClipFails BY <2>2 DEF ReadClipFails, AttemptFails, Idle, Fail, SubmitEnds
  <2>3. CASE StoreTranscript
    BY <2>3 DEF StoreTranscript, ClearClaim, AttemptSucceeds, Idle, Goes, Present
  <2>4. CASE StoreFails
    BY <2>4 DEF StoreFails, AttemptFails, Idle, Fail, SubmitEnds, Mishap
  <2>5. ASSUME NEW d \in Delays, NotHeard(d) PROVE FailedForCause'
    BY <2>5 DEF NotHeard, Elapse, AttemptFails, Idle, Fail, SubmitEnds
  <2>6. ASSUME NEW v \in Voices, NEW d \in Delays, Heard(v, d) PROVE FailedForCause'
    BY <2>6 DEF Heard, Elapse, Goes
  <2> QED BY <1>8, <2>1, <2>2, <2>3, <2>4, <2>5, <2>6 DEF Attempt
<1>9. ASSUME NEW v \in Voices, Scan(v) PROVE FailedForCause'
  BY <1>9 DEF Scan, Claim
<1>10. CASE ScanEnds BY <1>10 DEF ScanEnds, Idle
<1>11. CASE Process
  <2>1. CASE Stop BY <2>1 DEF Stop, Mishap
  <2>2. CASE Crash BY <2>2 DEF Crash, Mishap, Forget, Idle
  <2>3. CASE Exit BY <2>3 DEF Exit, Forget, Idle
  <2>4. CASE Restart BY <2>4 DEF Restart
  <2> QED BY <1>11, <2>1, <2>2, <2>3, <2>4 DEF Process
<1> QED BY <1>1, <1>2, <1>3, <1>4, <1>5, <1>6, <1>7, <1>8, <1>9, <1>10, <1>11 DEF Next,
    Requests, Worker

\* No step sends a request that is not fit, nor makes one so afterwards.
LEMMA PairedStep ==
  ASSUME LeaseTypes, JobTypes, WorkerTypes, Links, Places, ClipIsPaired, Next
  PROVE  ClipIsPaired'
<1> USE DEF LeaseTypes, JobTypes, WorkerTypes, Links, Places, ClipIsPaired, Gone, Fit, jobVars
<1>1. ASSUME NEW v \in Voices, Upload(v) PROVE ClipIsPaired'
  BY <1>1 DEF Upload
<1>2. ASSUME NEW v \in Voices, DeleteVoice(v) PROVE ClipIsPaired'
  BY <1>2 DEF DeleteVoice
<1>3. ASSUME NEW j \in Jobs, NEW e \in Engines, NEW v \in Voices, CreateJob(j, e, v)
    PROVE ClipIsPaired'
  BY <1>3 DEF CreateJob
<1>4. ASSUME NEW d \in Delays, Tick(d) PROVE ClipIsPaired'
  BY <1>4 DEF Tick, Elapse
<1>5. CASE TickNext BY <1>5 DEF TickNext
<1>6. CASE TickEnds BY <1>6 DEF TickEnds, Goes
<1>7. CASE Submission
  <2>1. CASE EnsureNothing BY <2>1 DEF EnsureNothing, Goes, CanRead, NeedsTranscript
  <2>2. CASE EnsureClaims BY <2>2 DEF EnsureClaims, Claim, Goes, NeedsTranscript
  <2>3. CASE EnsureRefused BY <2>3 DEF EnsureRefused, Fail, SubmitEnds, NeedsTranscript
  <2>4. CASE BuildClip BY <2>4 DEF BuildClip, Present
  <2>5. CASE BuildPlain BY <2>5 DEF BuildPlain, Fail, Goes, SubmitEnds, Present, CanRead
  <2>6. CASE Pair BY <2>6 DEF Pair
  <2>7. CASE PairFails BY <2>7 DEF PairFails, Fail, SubmitEnds
  <2>8. CASE ReadCancelled BY <2>8 DEF ReadCancelled, Fail, SubmitEnds
  <2>9. CASE PostCancelled BY <2>9 DEF PostCancelled, Fail, SubmitEnds
  <2>10. ASSUME NEW d \in Delays, Accepted(d) PROVE ClipIsPaired'
    BY <2>10 DEF Accepted, Elapse, SubmitEnds
  <2>11. ASSUME NEW d \in Delays, Refused(d) PROVE ClipIsPaired'
    BY <2>11 DEF Refused, Elapse, Fail, SubmitEnds
  <2> QED BY <1>7, <2>1, <2>2, <2>3, <2>4, <2>5, <2>6, <2>7, <2>8, <2>9, <2>10, <2>11
      DEF Submission
<1>8. CASE Attempt
  <2>1. CASE ReadClip BY <2>1 DEF ReadClip, Goes, Present
  <2>2. CASE ReadClipFails BY <2>2 DEF ReadClipFails, AttemptFails, Idle, Fail, SubmitEnds
  <2>3. CASE StoreTranscript
    BY <2>3 DEF StoreTranscript, ClearClaim, AttemptSucceeds, Idle, Goes, Present
  <2>4. CASE StoreFails
    BY <2>4 DEF StoreFails, AttemptFails, Idle, Fail, SubmitEnds, Mishap
  <2>5. ASSUME NEW d \in Delays, NotHeard(d) PROVE ClipIsPaired'
    BY <2>5 DEF NotHeard, Elapse, AttemptFails, Idle, Fail, SubmitEnds
  <2>6. ASSUME NEW v \in Voices, NEW d \in Delays, Heard(v, d) PROVE ClipIsPaired'
    BY <2>6 DEF Heard, Elapse, Goes
  <2> QED BY <1>8, <2>1, <2>2, <2>3, <2>4, <2>5, <2>6 DEF Attempt
<1>9. ASSUME NEW v \in Voices, Scan(v) PROVE ClipIsPaired'
  BY <1>9 DEF Scan, Claim
<1>10. CASE ScanEnds BY <1>10 DEF ScanEnds, Idle
<1>11. CASE Process
  <2>1. CASE Stop BY <2>1 DEF Stop, Mishap
  <2>2. CASE Crash BY <2>2 DEF Crash, Mishap, Forget, Idle
  <2>3. CASE Exit BY <2>3 DEF Exit, Forget, Idle
  <2>4. CASE Restart BY <2>4 DEF Restart
  <2> QED BY <1>11, <2>1, <2>2, <2>3, <2>4 DEF Process
<1> QED BY <1>1, <1>2, <1>3, <1>4, <1>5, <1>6, <1>7, <1>8, <1>9, <1>10, <1>11 DEF Next,
    Requests, Worker

-----------------------------------------------------------------------------
(* The rate.                                                                *)

Calls(v) == Cardinality(calls[v])

\* The claims of a lease that has not expired are at most its attempts, and none
\* is younger than the lease; without a lease a pending voice was not asked for.
Rate ==
  \A v \in Voices :
    /\ Calls(v) <= IF attempts[v] = 0 THEN MaxAttempts ELSE attempts[v]
    /\ attempts[v] # 0 => \A a \in calls[v] : a >= age[v]
    /\ attempts[v] = 0 /\ row[v] \in {"absent", "pending"} => calls[v] = {}

\* The ages of the claims are finitely many.
LEMMA CallsFinite ==
  ASSUME LeaseTypes, NEW v \in Voices
  PROVE  IsFiniteSet(calls[v]) /\ Calls(v) \in Nat
<1>1. IsFiniteSet(Ages) BY TranscriptionAssumption, FS_Interval DEF Ages
<1>2. calls[v] \subseteq Ages BY DEF LeaseTypes
<1> QED BY <1>1, <1>2, FS_Subset, FS_CardinalityType DEF Calls

\* Time brings no claim back.
LEMMA CallsElapse ==
  ASSUME LeaseTypes, NEW d \in Nat, NEW v \in Voices,
         calls'[v] = {a + d : a \in calls[v]} \cap Ages
  PROVE  Cardinality(calls'[v]) <= Calls(v)
<1> DEFINE f == [a \in calls[v] |-> a + d]
           Later == {f[a] : a \in calls[v]}
<1>1. IsFiniteSet(calls[v]) /\ Calls(v) \in Nat BY CallsFinite
<1>2. IsFiniteSet(Later) /\ Cardinality(Later) <= Calls(v)
  <2>1. f \in Surjection(calls[v], Later) BY DEF Surjection
  <2> QED BY <1>1, <2>1, FS_Surjection DEF Calls
<1>3. calls'[v] \subseteq Later OBVIOUS
<1>4. IsFiniteSet(calls'[v]) /\ Cardinality(calls'[v]) <= Cardinality(Later)
  BY <1>2, <1>3, FS_Subset
<1> HIDE DEF Later
<1>5. Cardinality(Later) \in Nat /\ Cardinality(calls'[v]) \in Nat
  BY <1>2, <1>4, FS_CardinalityType
<1> QED BY <1>1, <1>2, <1>4, <1>5

\* Time keeps the rate.
LEMMA RateElapse ==
  ASSUME LeaseTypes, Rate, NEW d \in Delays, Elapse(d), UNCHANGED row
  PROVE  Rate'
<1>1. d \in Nat BY TranscriptionAssumption
<1> SUFFICES ASSUME NEW v \in Voices
             PROVE  /\ Calls(v)' <= IF attempts'[v] = 0 THEN MaxAttempts ELSE attempts'[v]
                    /\ attempts'[v] # 0 => \A a \in calls'[v] : a >= age'[v]
                    /\ attempts'[v] = 0 /\ row'[v] \in {"absent", "pending"} => calls'[v] = {}
  BY DEF Rate
<1>2. attempts' = attempts /\ calls'[v] = {a + d : a \in calls[v]} \cap Ages BY DEF Elapse
<1>3. Calls(v)' <= Calls(v) BY <1>1, <1>2, CallsElapse DEF Calls
<1>4. Calls(v)' \in Nat /\ Calls(v) \in Nat
  <2>1. calls'[v] \subseteq Ages /\ IsFiniteSet(Ages)
    BY <1>2, TranscriptionAssumption, FS_Interval DEF Ages
  <2> QED BY <2>1, FS_Subset, FS_CardinalityType, CallsFinite DEF Calls
<1>5. attempts[v] \in Nat /\ MaxAttempts \in Nat BY TranscriptionAssumption DEF LeaseTypes
<1>6. Calls(v)' <= IF attempts'[v] = 0 THEN MaxAttempts ELSE attempts'[v]
  BY <1>2, <1>3, <1>4, <1>5 DEF Rate
<1>7. ASSUME attempts'[v] # 0, NEW b \in calls'[v] PROVE b >= age'[v]
  <2>1. PICK a \in calls[v] : b = a + d /\ b \in Ages BY <1>2, <1>7
  <2>2. a \in Nat /\ age[v] \in Nat /\ a >= age[v]
    BY <1>2, <1>7, TranscriptionAssumption DEF Rate, LeaseTypes, Ages
  <2>3. age'[v] = IF age[v] + d < Expiry THEN age[v] + d ELSE Expiry
    BY <1>2, <1>7 DEF Elapse
  <2> QED BY <1>1, <2>1, <2>2, <2>3, TranscriptionAssumption DEF Ages
<1>8. attempts'[v] = 0 /\ row'[v] \in {"absent", "pending"} => calls'[v] = {}
  BY <1>2 DEF Rate
<1> QED BY <1>6, <1>7, <1>8

\* A claim of a pending voice keeps the rate, whether or not its lease expired.
LEMMA RateClaim ==
  ASSUME LeaseTypes, Rate, NEW v \in Voices, row[v] = "pending", Claim(v), UNCHANGED row
  PROVE  Rate'
<1> SUFFICES ASSUME NEW u \in Voices
             PROVE  /\ Calls(u)' <= IF attempts'[u] = 0 THEN MaxAttempts ELSE attempts'[u]
                    /\ attempts'[u] # 0 => \A a \in calls'[u] : a >= age'[u]
                    /\ attempts'[u] = 0 /\ row'[u] \in {"absent", "pending"} => calls'[u] = {}
  BY DEF Rate
<1>1. CASE u # v
  <2>1. attempts'[u] = attempts[u] /\ age'[u] = age[u] /\ calls'[u] = calls[u]
    BY <1>1 DEF Claim, LeaseTypes
  <2> QED BY <2>1 DEF Rate, Calls
<1>2. CASE u = v
  <2>1. calls'[v] = calls[v] \cup {0} /\ age'[v] = 0 BY DEF Claim, LeaseTypes
  <2>2. IsFiniteSet(calls[v]) /\ Calls(v) \in Nat BY CallsFinite
  <2>3. Calls(v)' <= Calls(v) + 1
    <3>1. Cardinality(calls[v] \cup {0}) = IF 0 \in calls[v] THEN Calls(v) ELSE Calls(v) + 1
      BY <2>2, FS_AddElement DEF Calls
    <3>2. Calls(v)' = Cardinality(calls[v] \cup {0}) BY <2>1 DEF Calls
    <3> QED BY <2>2, <3>1, <3>2
  <2>4. ASSUME NEW a \in calls'[v] PROVE a >= age'[v]
    BY <2>1, <2>4 DEF LeaseTypes, Ages
  <2>5. attempts[v] \in Nat /\ attempts'[v] # 0
        /\ attempts'[v] = IF age[v] >= Expiry THEN 1 ELSE attempts[v] + 1
    BY TranscriptionAssumption DEF Claim, LeaseTypes
  <2>6. attempts[v] = 0 \/ age[v] >= Expiry => calls[v] = {}
    BY TranscriptionAssumption DEF Rate, LeaseTypes, Ages
  <2>7. calls[v] = {} => Calls(v)' = 1
    BY <2>1, FS_Singleton DEF Calls
  <2>8. Calls(v)' <= attempts'[v]
    <3>1. CASE calls[v] = {} BY <3>1, <2>5, <2>7
    <3>2. CASE calls[v] # {}
      <4>1. attempts[v] # 0 /\ attempts'[v] = attempts[v] + 1 BY <3>2, <2>5, <2>6
      <4>2. Calls(v) <= attempts[v] BY <4>1 DEF Rate
      <4>3. Calls(v)' \in Nat
        <5>1. IsFiniteSet(calls'[v]) BY <2>1, <2>2, FS_AddElement
        <5> QED BY <5>1, FS_CardinalityType DEF Calls
      <4> QED BY <4>1, <4>2, <4>3, <2>2, <2>3, <2>5
    <3> QED BY <3>1, <3>2
  <2> QED BY <1>2, <2>4, <2>5, <2>8
<1> QED BY <1>1, <1>2

\* What leaves the leases and the rows alone keeps the rate.
LEMMA RateKept ==
  ASSUME Rate, UNCHANGED <<row, leaseVars>>
  PROVE  Rate'
BY DEF Rate, Calls, leaseVars

\* A process that starts has asked nobody.
LEMMA RateForget == ASSUME Forget PROVE Rate'
<1>1. \A v \in Voices : calls'[v] = {} /\ attempts'[v] = 0 BY DEF Forget
<1>2. \A v \in Voices : Calls(v)' = 0 BY <1>1, FS_EmptySet DEF Calls
<1> QED BY <1>1, <1>2, TranscriptionAssumption DEF Rate

\* A transcript that is stored ends the lease; the voice is not asked for again.
LEMMA RateStore ==
  ASSUME LeaseTypes, WorkerTypes, Rate, StoreTranscript
  PROVE  Rate'
<1>1. /\ row' = [row EXCEPT ![wvoice] = "ready"]
      /\ attempts' = [attempts EXCEPT ![wvoice] = 0]
      /\ age' = [age EXCEPT ![wvoice] = 0] /\ calls' = calls
  BY DEF StoreTranscript, ClearClaim
<1> SUFFICES ASSUME NEW v \in Voices
             PROVE  /\ Calls(v)' <= IF attempts'[v] = 0 THEN MaxAttempts ELSE attempts'[v]
                    /\ attempts'[v] # 0 => \A a \in calls'[v] : a >= age'[v]
                    /\ attempts'[v] = 0 /\ row'[v] \in {"absent", "pending"} => calls'[v] = {}
  BY DEF Rate
<1>2. CASE v # wvoice BY <1>1, <1>2 DEF Rate, Calls, LeaseTypes
<1>3. CASE v = wvoice
  <2>1. attempts'[v] = 0 /\ row'[v] = "ready" BY <1>1, <1>3 DEF LeaseTypes
  <2>2. Calls(v)' = Calls(v) BY <1>1 DEF Calls
  <2>3. Calls(v) <= MaxAttempts
    BY CallsFinite, TranscriptionAssumption DEF Rate, LeaseTypes
  <2> QED BY <2>1, <2>2, <2>3
<1> QED BY <1>2, <1>3

\* No step asks Whisper more often than the leases allow.
LEMMA RateStep ==
  ASSUME LeaseTypes, JobTypes, WorkerTypes, Places, Leases, Rate, Next
  PROVE  Rate'
<1> USE DEF leaseVars, jobVars
<1>1. ASSUME NEW v \in Voices, Upload(v) PROVE Rate'
  BY <1>1 DEF Upload, Rate, Calls, Leases, LeaseTypes
<1>2. ASSUME NEW v \in Voices, DeleteVoice(v) PROVE Rate'
  BY <1>2 DEF DeleteVoice, Rate, Calls, LeaseTypes
<1>3. ASSUME NEW j \in Jobs, NEW e \in Engines, NEW v \in Voices, CreateJob(j, e, v)
    PROVE Rate'
  BY <1>3, RateKept DEF CreateJob
<1>4. ASSUME NEW d \in Delays, Tick(d) PROVE Rate'
  BY <1>4, RateElapse DEF Tick
<1>5. CASE TickNext BY <1>5, RateKept DEF TickNext
<1>6. CASE TickEnds BY <1>6, RateKept DEF TickEnds
<1>7. CASE Submission
  <2>1. CASE EnsureNothing BY <2>1, RateKept DEF EnsureNothing
  <2>2. CASE EnsureClaims
    <3>1. wvoice \in Voices BY <2>2 DEF EnsureClaims, NeedsTranscript, WorkerTypes
    <3> QED BY <2>2, <3>1, RateClaim DEF EnsureClaims
  <2>3. CASE EnsureRefused BY <2>3, RateKept DEF EnsureRefused
  <2>4. CASE BuildClip BY <2>4, RateKept DEF BuildClip
  <2>5. CASE BuildPlain BY <2>5, RateKept DEF BuildPlain
  <2>6. CASE Pair BY <2>6, RateKept DEF Pair
  <2>7. CASE PairFails BY <2>7, RateKept DEF PairFails
  <2>8. CASE ReadCancelled BY <2>8, RateKept DEF ReadCancelled
  <2>9. CASE PostCancelled BY <2>9, RateKept DEF PostCancelled
  <2>10. ASSUME NEW d \in Delays, Accepted(d) PROVE Rate'
    BY <2>10, RateElapse DEF Accepted
  <2>11. ASSUME NEW d \in Delays, Refused(d) PROVE Rate'
    BY <2>11, RateElapse DEF Refused
  <2> QED BY <1>7, <2>1, <2>2, <2>3, <2>4, <2>5, <2>6, <2>7, <2>8, <2>9, <2>10, <2>11
      DEF Submission
<1>8. CASE Attempt
  <2>1. CASE ReadClip BY <2>1, RateKept DEF ReadClip
  <2>2. CASE ReadClipFails BY <2>2, RateKept DEF ReadClipFails
  <2>3. CASE StoreTranscript BY <2>3, RateStore
  <2>4. CASE StoreFails BY <2>4, RateKept DEF StoreFails
  <2>5. ASSUME NEW d \in Delays, NotHeard(d) PROVE Rate'
    BY <2>5, RateElapse DEF NotHeard
  <2>6. ASSUME NEW v \in Voices, NEW d \in Delays, Heard(v, d) PROVE Rate'
    BY <2>6, RateElapse DEF Heard
  <2> QED BY <1>8, <2>1, <2>2, <2>3, <2>4, <2>5, <2>6 DEF Attempt
<1>9. ASSUME NEW v \in Voices, Scan(v) PROVE Rate'
  BY <1>9, RateClaim DEF Scan, Listed, Pending
<1>10. CASE ScanEnds BY <1>10, RateKept DEF ScanEnds
<1>11. CASE Process
  <2>1. CASE Stop BY <2>1, RateKept DEF Stop
  <2>2. CASE Crash BY <2>2, RateForget DEF Crash
  <2>3. CASE Exit BY <2>3, RateForget DEF Exit
  <2>4. CASE Restart BY <2>4, RateKept DEF Restart
  <2> QED BY <1>11, <2>1, <2>2, <2>3, <2>4 DEF Process
<1> QED BY <1>1, <1>2, <1>3, <1>4, <1>5, <1>6, <1>7, <1>8, <1>9, <1>10, <1>11 DEF Next,
    Requests, Worker

-----------------------------------------------------------------------------
(* The theorems.                                                            *)

IInv ==
  /\ LeaseTypes /\ JobTypes /\ WorkerTypes
  /\ Links /\ Places /\ Leases /\ Rate
  /\ FailedForCause /\ ClipIsPaired

\* The invariant holds of every state the program reaches.
THEOREM Inductive == Spec => []IInv
<1>1. Init => IInv
  <2> SUFFICES ASSUME Init PROVE IInv OBVIOUS
  <2> USE TranscriptionAssumption DEF Init
  <2>1. LeaseTypes BY DEF LeaseTypes
  <2>2. JobTypes BY DEF JobTypes
  <2>3. WorkerTypes BY DEF WorkerTypes
  <2>4. Links /\ Places /\ Leases
    BY DEF Links, Places, Leases, NeedsTranscript
  <2>5. Rate
    <3>1. \A v \in Voices : Calls(v) = 0 BY FS_EmptySet DEF Calls
    <3> QED BY <3>1 DEF Rate
  <2>6. FailedForCause /\ ClipIsPaired BY DEF FailedForCause, ClipIsPaired
  <2> QED BY <2>1, <2>2, <2>3, <2>4, <2>5, <2>6 DEF IInv
<1>2. IInv /\ [Next]_vars => IInv'
  <2> SUFFICES ASSUME IInv, [Next]_vars PROVE IInv' OBVIOUS
  <2>1. CASE Next
    BY <2>1, LeaseTypesStep, JobTypesStep, WorkerTypesStep, LinksStep, PlacesStep, LeasesStep,
       RateStep, CauseStep, PairedStep DEF IInv
  <2>2. CASE UNCHANGED vars
    <3> USE <2>2 DEF vars, leaseVars, jobVars, workerVars, procVars
    <3>1. LeaseTypes' BY DEF IInv, LeaseTypes
    <3>2. JobTypes' BY DEF IInv, JobTypes
    <3>3. WorkerTypes' BY DEF IInv, WorkerTypes
    <3>4. Links' BY DEF IInv, Links, Gone
    <3>5. Places' BY DEF IInv, Places, Gone, Fit, NeedsTranscript
    <3>6. Leases' BY DEF IInv, Leases
    <3>7. Rate' BY RateKept DEF IInv
    <3>8. FailedForCause' /\ ClipIsPaired' BY DEF IInv, FailedForCause, ClipIsPaired
    <3> QED BY <3>1, <3>2, <3>3, <3>4, <3>5, <3>6, <3>7, <3>8 DEF IInv
  <2> QED BY <2>1, <2>2
<1> QED BY <1>1, <1>2, PTL DEF Spec

\* Every variable keeps its type (TypeOK): no lease counts past the limit.
THEOREM TypeCorrect == Spec => []TypeOK
<1>1. IInv => TypeOK BY TypeParts DEF IInv
<1> QED BY <1>1, Inductive, PTL

\* Whisper is asked about a voice at most MaxAttempts times in any period of the
\* expiry, although an expired lease starts over (RateBounded).
THEOREM RateAlwaysBounded == Spec => []RateBounded
<1>1. IInv => RateBounded
  <2> SUFFICES ASSUME IInv, NEW v \in Voices PROVE Calls(v) <= MaxAttempts
    BY DEF RateBounded, Calls
  <2>1. LeaseTypes /\ Rate BY DEF IInv
  <2>2. Calls(v) \in Nat /\ attempts[v] \in 0..MaxAttempts /\ MaxAttempts \in Nat
    BY <2>1, CallsFinite, TranscriptionAssumption DEF LeaseTypes
  <2> QED BY <2>1, <2>2 DEF Rate
<1> QED BY <1>1, Inductive, PTL

\* A job fails for its transcript or its voice only for a cause (FailedForCause).
THEOREM FailuresHaveCause == Spec => []FailedForCause
<1>1. IInv => FailedForCause BY DEF IInv
<1> QED BY <1>1, Inductive, PTL

\* A job is rendered in the voice that was asked for, and a clip goes to Higgs and
\* Breeze only with its transcript (ClipIsPaired).
THEOREM ClipAlwaysPaired == Spec => []ClipIsPaired
<1>1. IInv => ClipIsPaired BY DEF IInv
<1> QED BY <1>1, Inductive, PTL
=============================================================================
