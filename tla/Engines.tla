------------------------------- MODULE Engines -------------------------------
(***************************************************************************)
(* The four engines.  A form becomes a row, the row a request to the       *)
(* engine's endpoint, and the engine's answer a verdict.  A form is        *)
(* validated when it is posted and once more, from the row, when the job   *)
(* is submitted; in between the voice may be deleted and the process       *)
(* started again with other endpoints.                                     *)
(*                                                                         *)
(* One job is followed.  Fields are kept as the classes the checks tell    *)
(* apart: "" is blank, "nan" a NaN, "junk" no number.  The races between   *)
(* the worker's steps, retries and crashes belong to RenderQueue and       *)
(* Transcription.                                                          *)
(***************************************************************************)
EXTENDS Naturals, Sequences

CONSTANTS
  Forms,       \* the forms posted
  Answers,     \* the answers an engine ends a render with
  Deployments, \* the sets of endpoints the process is started with
  MaxTries     \* DefaultMaxAttempts of a submission

Engine == {"moss", "higgs", "breeze", "auk"}
Modes == {"clone", "design", "direction"}
Tasks == {"zero_shot_tts", "instruct_tts", "edit"}  \* "edit": the five of them

\* longclip: a clone whose clip is within the upload limit, not within 4 MiB.
Cloned == {"clone", "longclip"}

\* text: the script, or AuK's instruction, is there and fits.  tuning stands for
\* max_new_tokens, pace, pitch and the like, seed also for response_delivery,
\* and audio for the source of an edit: an upload, a ready render, or both.
Form ==
  [model : Engine \cup {"", "unknown"}, voice : Cloned \cup {"", "stock", "gone"},
   text : BOOLEAN, mode : Modes \cup {"", "junk"}, instruct : BOOLEAN,
   cfg : {"", "zero", "range", "far", "nan", "junk"},
   tuning : {"", "set", "nan", "bad"}, seed : {"", "set", "bad"},
   task : Tasks \cup {"", "auto", "junk"}, promptText : BOOLEAN,
   audio : {"", "upload", "render", "both", "direct", "bad"},
   gen : {"", "set", "nan", "bad"}, variant : {"", "flash", "base", "junk"},
   nfe : {"", "zero", "flash", "base", "far", "junk"}]

\* params_json, and the part of a request that is not the voice.
Params ==
  [mode : Modes \cup {""}, instruct : BOOLEAN,
   cfg : {"", "zero", "range", "far", "nan", "default"}, tuning : {"", "set", "nan"},
   seed : {"", "set"}, task : Tasks \cup {"", "auto"}, promptText : BOOLEAN,
   audio : BOOLEAN, prompt : BOOLEAN, gen : {"", "set", "nan"},
   variant : {"", "flash", "base"}, nfe : {"", "flash", "base"}]

Unset ==
  [mode |-> "", instruct |-> FALSE, cfg |-> "", tuning |-> "", seed |-> "",
   task |-> "", promptText |-> FALSE, audio |-> FALSE, prompt |-> FALSE,
   gen |-> "", variant |-> "", nfe |-> ""]

\* ref: no voice, the clip alone, or the clip with its transcript.
Payload == [to : Engine \cup {"none"}, ref : {"none", "clip", "paired", "long"}, params : Params]
NoPayload == [to |-> "none", ref |-> "none", params |-> Unset]

\* An answer's output is its aggregated stream; a plain object is a stream of one.
Chunk == {"blank", "audio", "torn", "url", "envelope"}
Answer == [status : {"COMPLETED", "FAILED"}, error : {"none", "text", "envelope"}, output : Seq(Chunk)]
NoAnswer == [status |-> "FAILED", error |-> "none", output |-> <<>>]

ASSUME EnginesAssumption ==
  /\ Forms \subseteq Form /\ Answers \subseteq Answer
  /\ Deployments \subseteq SUBSET Engine /\ Deployments # {}
  /\ MaxTries \in Nat \ {0}

VARIABLES
  form,        \* ghost: what was asked for
  status, row, link, tries, error,  \* the job; link: its voice_id is not NULL
  voice,       \* the voice the form named, now
  payload,     \* the worker: the request it built
  posted,      \* ghost: the request that left last
  talked,      \* ghost: the endpoints the job was sent to or asked for at
  answer,      \* ghost: what the engine ended the render with
  configured   \* the endpoints that are set

jobVars == <<form, status, row, link, tries, error>>
vars == <<jobVars, voice, payload, posted, talked, answer, configured>>

TypeOK ==
  /\ form \in Form
  /\ status \in {"none", "queued", "sent", "ready", "failed"}
  /\ row \in Params /\ link \in BOOLEAN /\ tries \in 0..MaxTries
  /\ error \in {"none", "voice", "transcript", "clip", "input", "endpoint", "runpod",
                "output", "download", "no audio", "text", "envelope", "generic"}
  /\ voice \in Cloned \cup {"", "stock", "gone"}
  /\ payload \in Payload /\ posted \in Payload
  /\ talked \subseteq Engine
  /\ answer \in Answer
  /\ configured \subseteq Engine

-----------------------------------------------------------------------------
(* The form.                                                                *)

ResolveModel(f) == IF f.model = "" THEN "moss" ELSE f.model

\* Deviation: the Breeze controls, which every form posts, are read for all.
ParseForAll(f, e) ==
  [Unset EXCEPT !.tuning = f.tuning, !.seed = f.seed,
                !.mode = f.mode, !.instruct = f.instruct, !.cfg = f.cfg]

parseJobParams(f, e) ==
  LET breeze == e = "breeze" IN
  [Unset EXCEPT !.tuning = f.tuning, !.seed = f.seed,
                !.mode = IF breeze THEN f.mode ELSE "",
                !.instruct = breeze /\ f.instruct,
                !.cfg = IF breeze THEN f.cfg ELSE ""]

\* Deviation: any word is a mode.
ParamsUnchecked(f, e) ==
  f.tuning # "bad" /\ f.seed # "bad" /\ (e = "breeze" => f.cfg # "junk")

\* Every range check lets a NaN through.
ParamsValid(f, e) ==
  /\ f.tuning # "bad" /\ f.seed # "bad"
  /\ e = "breeze" => f.mode # "junk" /\ f.cfg # "junk"

\* Deviation: the worker infers a mode.
BreezeModeOptional(f) == f.mode \in {"design", "direction"} => f.instruct

BreezeValid(f) == f.mode # "" /\ (f.mode # "clone" => f.instruct)

NeedsVoice(f, e) == e # "auk" /\ ~(e = "breeze" /\ f.mode = "design")

\* The tasks that read voice_id; the clip of a clone is copied into the job.
ReadsVoice(f) == f.task \in {"", "auto", "zero_shot_tts"}
PromptVoice(f) == ReadsVoice(f) /\ f.voice \in Cloned

NormalizeAuKInput(in) ==
  LET base == in.variant = "base" IN
  [in EXCEPT !.task = IF @ = "" THEN "auto" ELSE @,
             !.variant = IF @ = "" THEN "flash" ELSE @,
             !.nfe = IF @ \notin {"", "zero"} THEN @ ELSE IF base THEN "base" ELSE "flash",
             !.cfg = IF ~base THEN "zero" ELSE IF @ \in {"", "zero"} THEN "range" ELSE @]

ResolveAuKTask(in) ==
  IF in.task \notin {"", "auto"} THEN in.task
  ELSE IF in.prompt THEN "zero_shot_tts"
  ELSE IF in.audio THEN "unknown"
  ELSE "instruct_tts"

ValidateAuKInput(in) ==
  LET task == ResolveAuKTask(in) IN
  /\ task \in Tasks
  /\ task = "zero_shot_tts" => in.prompt /\ ~in.audio /\ in.gen # ""
  /\ task = "instruct_tts" => ~in.prompt /\ ~in.audio /\ in.gen # ""
  /\ task = "edit" => in.audio /\ ~in.prompt
  /\ in.promptText => in.prompt
  /\ in.gen # "bad"
  /\ \/ in.variant = "flash" /\ in.nfe = "flash" /\ in.cfg = "zero"
     \/ in.variant = "base" /\ in.nfe = "base" /\ in.cfg \in {"range", "nan"}

\* auto without a prompt forgets its transcript.
AuKInput(f) ==
  [Unset EXCEPT !.task = f.task, !.audio = (f.audio # ""), !.prompt = PromptVoice(f),
                !.promptText = f.promptText /\ (f.task \in {"", "auto"} => PromptVoice(f)),
                !.gen = f.gen, !.variant = f.variant, !.nfe = f.nfe,
                !.cfg = f.cfg, !.seed = f.seed]

parseAuKJobParams(f) == NormalizeAuKInput(AuKInput(f))

AuKValid(f) ==
  /\ f.audio \in {"", "upload", "render"}
  /\ ReadsVoice(f) => f.voice # "gone"
  /\ f.task = "zero_shot_tts" => f.voice \in Cloned
  /\ f.nfe # "junk" /\ f.cfg # "junk" /\ f.seed # "bad"
  /\ ValidateAuKInput(parseAuKJobParams(f))

\* Deviation: a NaN is stored like a number.
AlwaysEncodable(p) == TRUE

\* Enqueue: json.Marshal knows no NaN, and the request fails.
Encodable(p) == "nan" \notin {p.cfg, p.tuning, p.gen}

ParamsOf(f) ==
  IF ResolveModel(f) = "auk" THEN parseAuKJobParams(f) ELSE parseJobParams(f, ResolveModel(f))

Accepts(f) ==
  LET e == ResolveModel(f) IN
  /\ e \in Engine /\ f.text
  /\ e = "auk" => AuKValid(f)
  /\ e # "auk" => ParamsValid(f, e)
  /\ e = "breeze" => BreezeValid(f)
  /\ NeedsVoice(f, e) => f.voice \in Cloned \cup {"stock"}
  /\ Encodable(ParamsOf(f))

NoForm ==
  [model |-> "", voice |-> "", text |-> FALSE, mode |-> "", instruct |-> FALSE,
   cfg |-> "", tuning |-> "", seed |-> "", task |-> "", promptText |-> FALSE,
   audio |-> "", gen |-> "", variant |-> "", nfe |-> ""]

Init ==
  /\ form = NoForm /\ status = "none" /\ row = Unset /\ link = FALSE
  /\ tries = 0 /\ error = "none" /\ voice = ""
  /\ payload = NoPayload /\ posted = NoPayload /\ talked = {} /\ answer = NoAnswer
  /\ configured \in Deployments

\* A form that is refused leaves nothing behind.
CreateJob ==
  /\ status = "none"
  /\ \E f \in Forms :
       /\ Accepts(f)
       /\ form' = f /\ voice' = f.voice /\ row' = ParamsOf(f)
       /\ link' = (\/ NeedsVoice(f, ResolveModel(f))
                   \/ ResolveModel(f) = "auk" /\ PromptVoice(f))
  /\ status' = "queued"
  /\ UNCHANGED <<tries, error, payload, posted, talked, answer, configured>>

\* ON DELETE SET NULL unlinks the job; AuK's copy of the clip is its own.
DeleteVoice ==
  /\ voice \in Cloned
  /\ voice' = "gone" /\ link' = FALSE
  /\ UNCHANGED <<form, status, row, tries, error, payload, posted, talked, answer, configured>>

-----------------------------------------------------------------------------
(* The worker builds the request from the row and the voice.                *)

engine == ResolveModel(form)

Fail(why) ==
  /\ status' = "failed" /\ error' = why
  /\ payload' = NoPayload
  /\ UNCHANGED <<form, row, link, tries>>

Building(e) == status = "queued" /\ payload = NoPayload /\ engine = e

Built(ref, params) ==
  /\ payload' = [to |-> engine, ref |-> ref, params |-> params]
  /\ UNCHANGED jobVars

HasClip == link /\ voice \in Cloned

\* Whatever is in params_json goes along.
BuildMOSS ==
  /\ Building("moss")
  /\ Built(IF HasClip THEN "clip" ELSE "none", row)
  /\ UNCHANGED <<voice, posted, talked, answer, configured>>

\* Higgs has no use for the parameters.
BuildHiggs ==
  /\ Building("higgs")
  /\ Built(IF ~HasClip THEN "none" ELSE IF voice = "longclip" THEN "long" ELSE "paired", Unset)
  /\ UNCHANGED <<voice, posted, talked, answer, configured>>

BreezeParams ==
  [Unset EXCEPT !.mode = row.mode, !.instruct = row.instruct /\ row.mode # "clone",
                !.cfg = IF row.cfg \in {"", "zero"} THEN "default" ELSE row.cfg]

Instructed == row.mode = "clone" \/ (row.mode \in Modes /\ row.instruct)

BreezeVoiced == row.mode = "design" \/ (HasClip /\ voice # "longclip")

BuildBreeze ==
  /\ Building("breeze") /\ Instructed /\ BreezeVoiced
  /\ Built(IF row.mode = "design" THEN "none" ELSE "paired", BreezeParams)
  /\ UNCHANGED <<voice, posted, talked, answer, configured>>

BuildBreezeFails ==
  /\ Building("breeze") /\ ~(Instructed /\ BreezeVoiced)
  /\ Fail(IF ~Instructed THEN "input" ELSE IF HasClip THEN "clip" ELSE "voice")
  /\ UNCHANGED <<voice, posted, talked, answer, configured>>

\* ensureTranscript, when Whisper does not help.
TranscriptFails ==
  /\ Building("higgs") \/ (Building("breeze") /\ row.mode # "design")
  /\ HasClip
  /\ Fail("transcript")
  /\ UNCHANGED <<voice, posted, talked, answer, configured>>

\* The row is read, normalised and validated once more.
BuildAuK ==
  /\ Building("auk")
  /\ IF ValidateAuKInput(NormalizeAuKInput(row))
     THEN Built("none", NormalizeAuKInput(row))
     ELSE Fail("input")
  /\ UNCHANGED <<voice, posted, talked, answer, configured>>

-----------------------------------------------------------------------------
(* The client and the endpoints.                                            *)

ValidateBreezeInput(p) ==
  /\ p.params.mode \in Modes
  /\ p.params.mode = "design" => p.ref = "none"
  /\ p.params.mode # "design" => p.ref = "paired"
  /\ p.params.mode # "clone" => p.params.instruct

ClientAccepts(p) ==
  /\ p.to = "higgs" => p.ref # "long"
  /\ p.to = "breeze" => ValidateBreezeInput(p)
  /\ p.to = "auk" => ValidateAuKInput(NormalizeAuKInput(p.params))

\* A missing endpoint is never replaced by another engine's.
PostRefused ==
  /\ payload # NoPayload
  /\ \/ payload.to \notin configured /\ Fail("endpoint")
     \/ payload.to \in configured /\ ~ClientAccepts(payload)
        /\ Fail(IF payload.ref = "long" THEN "clip" ELSE "input")
  /\ UNCHANGED <<voice, posted, talked, answer, configured>>

Posting ==
  /\ payload # NoPayload /\ payload.to \in configured /\ ClientAccepts(payload)
  /\ posted' = payload /\ talked' = talked \cup {payload.to}

Accepted ==
  /\ Posting
  /\ status' = "sent" /\ payload' = NoPayload
  /\ UNCHANGED <<form, row, link, tries, error, voice, answer, configured>>

\* A permanent error, or the last attempt; otherwise it is built again.
Rejected ==
  /\ Posting
  /\ \/ Fail("runpod")
     \/ /\ tries + 1 < MaxTries
        /\ tries' = tries + 1 /\ payload' = NoPayload
        /\ UNCHANGED <<form, status, row, link, error>>
  /\ UNCHANGED <<voice, answer, configured>>

\* Deviation: the poller knows MOSS and Higgs only.
TwoEndpoints(e) == IF e = "higgs" THEN e ELSE "moss"

StatusEndpoint(e) == e

\* The endpoint the job was sent to is not set any more.
PollRefused ==
  /\ status = "sent" /\ StatusEndpoint(engine) \notin configured
  /\ Fail("endpoint")
  /\ UNCHANGED <<voice, posted, talked, answer, configured>>

\* Deviation: the last element of the stream, whatever it holds.
PickLast(out) == IF out = <<>> THEN "blank" ELSE out[Len(out)]

Inline(out) == {i \in 1..Len(out) : out[i] \in {"audio", "torn"}}

\* Output.UnmarshalJSON: the last element with audio, else the last one.
Picked(out) ==
  IF out = <<>> THEN "blank"
  ELSE IF Inline(out) = {} THEN out[Len(out)]
  ELSE out[CHOOSE i \in Inline(out) : \A k \in Inline(out) : k <= i]

failureReason(a) ==
  IF engine \in {"breeze", "auk"} /\ Picked(a.output) = "envelope" THEN "envelope"
  ELSE IF a.error = "none" THEN "generic"
  ELSE a.error

Becomes(verdict, why) ==
  /\ status' = verdict /\ error' = why
  /\ UNCHANGED <<form, row, link, tries, payload>>

Polling(a) ==
  /\ status = "sent" /\ StatusEndpoint(engine) \in configured
  /\ talked' = talked \cup {StatusEndpoint(engine)} /\ answer' = a
  /\ UNCHANGED <<voice, posted, configured>>

PollFailed(a) ==
  /\ Polling(a) /\ a.status = "FAILED"
  /\ Becomes("failed", failureReason(a))

\* A URL is downloaded, and that may fail.
PollCompleted(a) ==
  /\ Polling(a) /\ a.status = "COMPLETED"
  /\ \/ Picked(a.output) \in {"audio", "url"} /\ Becomes("ready", "none")
     \/ Picked(a.output) = "torn" /\ Becomes("failed", "output")
     \/ Picked(a.output) = "url" /\ Becomes("failed", "download")
     \/ Picked(a.output) \in {"blank", "envelope"} /\ Becomes("failed", "no audio")

\* The process is started again, perhaps with other endpoints.
Restart ==
  /\ configured' \in Deployments
  /\ payload' = NoPayload
  /\ UNCHANGED <<jobVars, voice, posted, talked, answer>>

Build == BuildMOSS \/ BuildHiggs \/ BuildBreeze \/ BuildBreezeFails \/ TranscriptFails \/ BuildAuK
Post == PostRefused \/ Accepted \/ Rejected
Poll == PollRefused \/ (\E a \in Answers : PollFailed(a) \/ PollCompleted(a))

Next == CreateJob \/ DeleteVoice \/ Build \/ Post \/ Poll \/ Restart

Spec == Init /\ [][Next]_vars
-----------------------------------------------------------------------------
(* Safety.                                                                  *)

\* What the engines' workers ask of a request, as runpod.go quotes it.
AuKContract(p) ==
  LET task == ResolveAuKTask(p) IN
  /\ task \in Tasks
  /\ p.prompt <=> task = "zero_shot_tts"
  /\ p.audio <=> task = "edit"
  /\ task # "edit" => p.gen = "set"
  /\ p.promptText => p.prompt
  /\ <<p.variant, p.nfe, p.cfg>> \in {<<"flash", "flash", "zero">>, <<"base", "base", "range">>}

BreezeContract(p) ==
  /\ p.params.mode \in Modes
  /\ p.ref = IF p.params.mode = "design" THEN "none" ELSE "paired"
  /\ p.params.instruct <=> p.params.mode # "clone"

\* Every request that leaves is one its engine's worker takes: whatever the
\* form held, became of the voice, or was rebuilt after a retry or a restart
\* (runpod.go MarshalJSON, Validate*; worker.go build*).
ContractMet ==
  /\ Encodable(posted.params)
  /\ posted.to = "moss" => posted.ref # "paired"
  /\ posted.to = "higgs" => posted.ref \in {"none", "paired"}
  /\ posted.to = "breeze" => BreezeContract(posted)
  /\ posted.to = "auk" => AuKContract(posted.params)

\* The two validations agree: what the form passed never fails for its fields
\* when the job is built; only Breeze needs a clone, and only a clip too long
\* for Higgs and Breeze was let through (server/jobs.go handleCreateJob,
\* parseAuKJobParams; worker.go buildBreezeInput, buildAuKInput).
AcceptedIsBuildable ==
  /\ error # "input"
  /\ error = "voice" => /\ engine = "breeze" /\ form.mode # "design"
                        /\ form.voice = "stock" \/ voice = "gone"
  /\ error = "clip" => engine \in {"higgs", "breeze"} /\ form.voice = "longclip"
  /\ error = "transcript" => engine \in {"higgs", "breeze"} /\ form.voice \in Cloned

\* The task a form means: auto is a voice's task if it names a clone.
AuKTaskOf(f) ==
  IF f.task \notin {"", "auto"} THEN f.task
  ELSE IF f.voice \in Cloned THEN "zero_shot_tts" ELSE "instruct_tts"

\* A request says what the form said to that engine and nothing of the controls
\* of another one.  AuK's task is the one the form meant, with the clone's clip
\* even if the clone was deleted since; the others lose a voice only that way
\* (server/jobs.go parseJobParams; worker.go buildInput, buildAuKInput).
RequestKept ==
  LET p == posted.params IN
  posted # NoPayload =>
    /\ posted.to = engine
    /\ engine = "moss" => p = [Unset EXCEPT !.tuning = form.tuning, !.seed = form.seed]
    /\ engine = "higgs" => p = Unset
    /\ engine = "breeze" => /\ p.mode = form.mode /\ p.tuning = "" /\ p.task = ""
                            /\ p.cfg \in {form.cfg, "default"}
    /\ engine = "auk" => /\ ResolveAuKTask(p) = AuKTaskOf(form)
                         /\ p.seed = form.seed /\ p.mode = "" /\ p.tuning = ""
    /\ engine \in {"moss", "higgs"} /\ posted.ref = "none"
         => form.voice = "stock" \/ voice = "gone"

\* The verdict is the answer's: a ready job got audio, audio anywhere in the
\* stream is never given up as missing, and a failure keeps the engine's reason
\* if it gave one (runpod.go UnmarshalJSON, poller.go outputAudio, failureReason).
VerdictMatchesAnswer ==
  LET out == answer.output
      Holds(c) == \E i \in 1..Len(out) : out[i] = c
  IN
  /\ status = "ready" => answer.status = "COMPLETED" /\ (Holds("audio") \/ Holds("url"))
  /\ error = "no audio" => ~Holds("audio") /\ (Len(out) = 1 => ~Holds("url"))
  /\ error = "generic" => /\ answer.error = "none"
                          /\ engine \in {"breeze", "auk"} /\ Len(out) = 1 => ~Holds("envelope")
  /\ error = "output" => Holds("torn")

\* A job talks to its own engine's endpoint and to no other, whatever endpoints
\* the process is started with (runpod.go Submit*, Status*; poller.go status).
StaysWithItsEngine == talked \subseteq {engine}
=============================================================================
