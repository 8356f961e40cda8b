---------------------------- MODULE EnginesProofs ----------------------------
(***************************************************************************)
(* Proofs about Engines, for any set of forms, answers and deployments:    *)
(* first what a form that was accepted becomes, field by field, then what  *)
(* the steps keep of it.                                                   *)
(***************************************************************************)
EXTENDS Engines, WellFoundedInduction, TLAPS

(* Records of parameters, by their fields.                                  *)

IsRecord(p) == p = [x \in DOMAIN Unset |-> p[x]]

LEMMA ParamsMember ==
  ASSUME NEW p, IsRecord(p),
         p.mode \in Modes \cup {""}, p.instruct \in BOOLEAN,
         p.cfg \in {"", "zero", "range", "far", "nan", "default"},
         p.tuning \in {"", "set", "nan"}, p.seed \in {"", "set"},
         p.task \in Tasks \cup {"", "auto"}, p.promptText \in BOOLEAN,
         p.audio \in BOOLEAN, p.prompt \in BOOLEAN, p.gen \in {"", "set", "nan"},
         p.variant \in {"", "flash", "base"}, p.nfe \in {"", "flash", "base"}
  PROVE  p \in Params
BY DEF IsRecord, Unset, Params

LEMMA ParamsEqual ==
  ASSUME NEW p, NEW q, IsRecord(p), IsRecord(q),
         p.mode = q.mode, p.instruct = q.instruct, p.cfg = q.cfg, p.tuning = q.tuning,
         p.seed = q.seed, p.task = q.task, p.promptText = q.promptText, p.audio = q.audio,
         p.prompt = q.prompt, p.gen = q.gen, p.variant = q.variant, p.nfe = q.nfe
  PROVE  p = q
BY DEF IsRecord, Unset

LEMMA UnsetParams == Unset \in Params /\ IsRecord(Unset)
BY ParamsMember DEF Unset, IsRecord

\* Normalisation fills in the task, the variant and its numbers.
LEMMA NormalFields ==
  ASSUME NEW in, IsRecord(in)
  PROVE  /\ NormalizeAuKInput(in).mode = in.mode
         /\ NormalizeAuKInput(in).instruct = in.instruct
         /\ NormalizeAuKInput(in).tuning = in.tuning
         /\ NormalizeAuKInput(in).seed = in.seed
         /\ NormalizeAuKInput(in).promptText = in.promptText
         /\ NormalizeAuKInput(in).audio = in.audio
         /\ NormalizeAuKInput(in).prompt = in.prompt
         /\ NormalizeAuKInput(in).gen = in.gen
         /\ NormalizeAuKInput(in).task = IF in.task = "" THEN "auto" ELSE in.task
         /\ NormalizeAuKInput(in).variant = IF in.variant = "" THEN "flash" ELSE in.variant
         /\ NormalizeAuKInput(in).nfe
              = IF in.nfe \notin {"", "zero"} THEN in.nfe
                ELSE IF in.variant = "base" THEN "base" ELSE "flash"
         /\ NormalizeAuKInput(in).cfg
              = IF in.variant # "base" THEN "zero"
                ELSE IF in.cfg \in {"", "zero"} THEN "range" ELSE in.cfg
         /\ IsRecord(NormalizeAuKInput(in))
BY DEF IsRecord, NormalizeAuKInput, Unset

LEMMA AuKInputFields ==
  ASSUME NEW f, NEW in, in = AuKInput(f)
  PROVE  /\ in.mode = "" /\ in.tuning = "" /\ in.task = f.task /\ in.seed = f.seed
         /\ in.audio = (f.audio # "") /\ in.prompt = PromptVoice(f)
         /\ in.promptText = (f.promptText /\ (f.task \in {"", "auto"} => PromptVoice(f)))
         /\ in.gen = f.gen /\ in.variant = f.variant /\ in.nfe = f.nfe /\ in.cfg = f.cfg
         /\ in.instruct = FALSE
BY DEF AuKInput, Unset

LEMMA AuKInputRecord ==
  ASSUME NEW f PROVE IsRecord(AuKInput(f))
BY ZenonT(30) DEF AuKInput, Unset, IsRecord

\* A form that AuK accepts becomes parameters that normalisation leaves alone.
LEMMA AuKRow ==
  ASSUME NEW f \in Form, AuKValid(f), NEW p, p = parseAuKJobParams(f)
  PROVE  /\ p \in Params /\ ValidateAuKInput(p) /\ NormalizeAuKInput(p) = p
         /\ p.seed = f.seed /\ p.mode = "" /\ p.tuning = ""
         /\ p.audio \in BOOLEAN /\ p.prompt \in BOOLEAN
         /\ ResolveAuKTask(p) = AuKTaskOf(f)
<1> DEFINE in == AuKInput(f)
<1>1. IsRecord(in)
  BY AuKInputRecord
<1>2. /\ in.mode = "" /\ in.tuning = "" /\ in.task = f.task /\ in.seed = f.seed
      /\ in.gen = f.gen /\ in.variant = f.variant /\ in.nfe = f.nfe /\ in.cfg = f.cfg
      /\ in.audio \in BOOLEAN /\ in.prompt \in BOOLEAN /\ in.promptText \in BOOLEAN
      /\ in.prompt = PromptVoice(f) /\ in.instruct = FALSE
  <2>1. in = AuKInput(f)
    OBVIOUS
  <2> HIDE DEF in
  <2>2. PromptVoice(f) \in BOOLEAN
    BY Zenon DEF PromptVoice, ReadsVoice
  <2>3. /\ in.mode = "" /\ in.tuning = "" /\ in.task = f.task /\ in.seed = f.seed
        /\ in.gen = f.gen /\ in.variant = f.variant /\ in.nfe = f.nfe /\ in.cfg = f.cfg
    BY <2>1, AuKInputFields
  <2>4. in.prompt = PromptVoice(f) /\ in.instruct = FALSE
    BY <2>1, AuKInputFields, Zenon
  <2>5. in.audio = (f.audio # "")
    BY <2>1, AuKInputFields, Zenon
  <2>6. in.promptText = (f.promptText /\ (f.task \in {"", "auto"} => PromptVoice(f)))
    BY <2>1, AuKInputFields, Zenon
  <2>7. in.audio \in BOOLEAN /\ in.promptText \in BOOLEAN /\ in.prompt \in BOOLEAN
    BY <2>2, <2>4, <2>5, <2>6, Zenon
  <2> QED
    BY <2>3, <2>4, <2>7
<1>3. p = NormalizeAuKInput(in)
  BY DEF parseAuKJobParams
<1> HIDE DEF in
<1>4. IsRecord(p) /\ p.audio \in BOOLEAN /\ p.prompt \in BOOLEAN /\ p.promptText \in BOOLEAN
      /\ p.instruct \in BOOLEAN
  <2>1. /\ IsRecord(p) /\ p.audio = in.audio /\ p.prompt = in.prompt
        /\ p.promptText = in.promptText /\ p.instruct = in.instruct
    BY <1>1, <1>3, NormalFields, Zenon
  <2> QED
    BY <1>2, <2>1, Zenon
<1>5. /\ p.mode = "" /\ p.tuning = "" /\ p.seed = f.seed /\ p.gen = f.gen
      /\ p.task = IF f.task = "" THEN "auto" ELSE f.task
      /\ p.prompt = PromptVoice(f)
  <2>1. /\ p.mode = in.mode /\ p.tuning = in.tuning /\ p.seed = in.seed /\ p.gen = in.gen
        /\ p.task = (IF in.task = "" THEN "auto" ELSE in.task) /\ p.prompt = in.prompt
    BY <1>1, <1>3, NormalFields, ZenonT(30)
  <2> QED
    BY <1>2, <2>1, Zenon
<1>6. ValidateAuKInput(p) /\ p.seed \in {"", "set"}
  BY <1>5 DEF AuKValid, Form
<1>7. /\ p.gen \in {"", "set", "nan"} /\ p.task \in Tasks \cup {"auto"}
      /\ p.variant \in {"flash", "base"} /\ p.nfe \in {"flash", "base"}
      /\ p.cfg \in {"zero", "range", "nan"}
  <2>1. /\ f.gen \in {"", "set", "nan", "bad"}
        /\ f.task \in Tasks \cup {"", "auto", "junk"}
    BY DEF Form
  <2>2. p.gen \in {"", "set", "nan"}
    BY <2>1, <1>5, <1>6 DEF ValidateAuKInput
  <2>3. p.task \in Tasks \cup {"auto"}
    <3>1. ResolveAuKTask(p) \in Tasks
      BY <1>6 DEF ValidateAuKInput
    <3> QED
      BY <3>1, <2>1, <1>5 DEF ResolveAuKTask
  <2>4. /\ p.variant \in {"flash", "base"} /\ p.nfe \in {"flash", "base"}
        /\ p.cfg \in {"zero", "range", "nan"}
    BY <1>6 DEF ValidateAuKInput
  <2> QED
    BY <2>2, <2>3, <2>4
<1>8. p \in Params
  BY <1>4, <1>5, <1>6, <1>7, ParamsMember
<1>9. NormalizeAuKInput(p) = p
  BY <1>8, <1>6, <1>7, ZenonT(30) DEF Params, NormalizeAuKInput, ValidateAuKInput, Tasks
<1>10. ResolveAuKTask(p) = AuKTaskOf(f)
  BY <1>5, <1>6
  DEF ResolveAuKTask, AuKTaskOf, PromptVoice, ReadsVoice, ValidateAuKInput, Tasks
<1> QED
  BY <1>4, <1>5, <1>6, <1>8, <1>9, <1>10

LEMMA AuKRowContract ==
  ASSUME NEW p \in Params, ValidateAuKInput(p), Encodable(p)
  PROVE  AuKContract(p)
<1>1. p.audio \in BOOLEAN /\ p.prompt \in BOOLEAN /\ p.gen \in {"", "set", "nan"}
  BY DEF Params
<1> QED
  BY <1>1 DEF ValidateAuKInput, Tasks, Encodable, AuKContract

LEMMA JobRow ==
  ASSUME NEW f \in Form, NEW e, ParamsValid(f, e), NEW p, p = parseJobParams(f, e)
  PROVE  /\ p \in Params
         /\ e # "breeze" => p = [Unset EXCEPT !.tuning = f.tuning, !.seed = f.seed]
<1>1. /\ IsRecord(p) /\ p.tuning = f.tuning /\ p.seed = f.seed
      /\ p.mode = (IF e = "breeze" THEN f.mode ELSE "")
      /\ p.cfg = (IF e = "breeze" THEN f.cfg ELSE "")
      /\ p.instruct = (e = "breeze" /\ f.instruct)
      /\ p.task = "" /\ p.promptText = FALSE /\ p.audio = FALSE /\ p.prompt = FALSE
      /\ p.gen = "" /\ p.variant = "" /\ p.nfe = ""
  BY DEF parseJobParams, Unset, IsRecord
<1>2. p.instruct \in BOOLEAN
  BY <1>1
<1>3. /\ p.tuning \in {"", "set", "nan"} /\ p.seed \in {"", "set"} /\ p.mode \in Modes \cup {""}
      /\ p.cfg \in {"", "zero", "range", "far", "nan"}
  <2>1. /\ f.tuning \in {"", "set", "nan", "bad"} /\ f.seed \in {"", "set", "bad"}
        /\ f.mode \in Modes \cup {"", "junk"}
        /\ f.cfg \in {"", "zero", "range", "far", "nan", "junk"}
    BY DEF Form
  <2>2. /\ f.tuning # "bad" /\ f.seed # "bad"
        /\ e = "breeze" => f.mode # "junk" /\ f.cfg # "junk"
    BY DEF ParamsValid
  <2>3. /\ p.tuning = f.tuning /\ p.seed = f.seed
        /\ p.mode = (IF e = "breeze" THEN f.mode ELSE "")
        /\ p.cfg = (IF e = "breeze" THEN f.cfg ELSE "")
    BY <1>1
  <2> QED
    BY <2>1, <2>2, <2>3
<1>4. p \in Params
  BY <1>1, <1>2, <1>3, ParamsMember
<1>5. ASSUME e # "breeze", NEW q, q = [Unset EXCEPT !.tuning = f.tuning, !.seed = f.seed]
      PROVE  p = q
  <2>1. /\ IsRecord(q) /\ q.mode = "" /\ q.instruct = FALSE /\ q.cfg = ""
        /\ q.tuning = f.tuning /\ q.seed = f.seed
        /\ q.task = "" /\ q.promptText = FALSE /\ q.audio = FALSE /\ q.prompt = FALSE
        /\ q.gen = "" /\ q.variant = "" /\ q.nfe = ""
    BY <1>5 DEF Unset, IsRecord
  <2>2. p.instruct = FALSE
    BY <1>1, <1>5
  <2> QED
    BY <1>1, <1>5, <2>1, <2>2, ParamsEqual
<1> QED
  BY <1>4, <1>5

-----------------------------------------------------------------------------
(* What a form that was accepted became.                                    *)

LEMMA AcceptedRow ==
  ASSUME NEW f \in Form, Accepts(f), NEW e, e = ResolveModel(f), NEW p, p = ParamsOf(f)
  PROVE  /\ e \in Engine /\ p \in Params /\ Encodable(p)
         /\ e # "auk" => p = parseJobParams(f, e) /\ ParamsValid(f, e)
         /\ e = "auk" => p = parseAuKJobParams(f) /\ AuKValid(f)
         /\ NeedsVoice(f, e) => f.voice \in Cloned \cup {"stock"}
<1>1. /\ e \in Engine /\ Encodable(p)
      /\ e # "auk" => ParamsValid(f, e)
      /\ e = "auk" => AuKValid(f)
      /\ NeedsVoice(f, e) => f.voice \in Cloned \cup {"stock"}
  BY DEF Accepts
<1>2. /\ e # "auk" => p = parseJobParams(f, e)
      /\ e = "auk" => p = parseAuKJobParams(f)
  BY DEF ParamsOf
<1>3. p \in Params
  <2>1. ASSUME e = "auk" PROVE p \in Params
    BY <1>1, <1>2, <2>1, AuKRow
  <2>2. ASSUME e # "auk" PROVE p \in Params
    BY <1>1, <1>2, <2>2, JobRow
  <2> QED
    BY <2>1, <2>2
<1> QED
  BY <1>1, <1>2, <1>3

LEMMA MOSSRow ==
  ASSUME NEW f \in Form, Accepts(f), ResolveModel(f) = "moss"
  PROVE  ParamsOf(f) = [Unset EXCEPT !.tuning = f.tuning, !.seed = f.seed]
BY AcceptedRow, JobRow

LEMMA BreezeRow ==
  ASSUME NEW f \in Form, Accepts(f), ResolveModel(f) = "breeze", NEW p, p = ParamsOf(f)
  PROVE  /\ p.mode = f.mode /\ p.cfg = f.cfg /\ p.mode \in Modes
         /\ p.mode # "clone" => p.instruct
<1>1. p = parseJobParams(f, "breeze") /\ ParamsValid(f, "breeze")
  BY AcceptedRow
<1>2. f.mode \in Modes \cup {"", "junk"} /\ f.mode # "junk"
  BY <1>1 DEF ParamsValid, Form
<1>3. f.mode # "" /\ (f.mode # "clone" => f.instruct)
  BY DEF Accepts, BreezeValid
<1>4. p.mode = f.mode /\ p.cfg = f.cfg /\ p.instruct = f.instruct
  <2>1. p.mode = f.mode /\ p.cfg = f.cfg
    BY <1>1 DEF parseJobParams, Unset
  <2>2. p.instruct = ("breeze" = "breeze" /\ f.instruct)
    BY <1>1 DEF parseJobParams, Unset
  <2>3. f.instruct \in BOOLEAN
    BY DEF Form
  <2> QED
    BY <2>1, <2>2, <2>3
<1> QED
  BY <1>2, <1>3, <1>4

LEMMA AuKRowKept ==
  ASSUME NEW f \in Form, Accepts(f), ResolveModel(f) = "auk", NEW p, p = ParamsOf(f)
  PROVE  /\ p \in Params /\ ValidateAuKInput(p) /\ NormalizeAuKInput(p) = p
         /\ p.seed = f.seed /\ p.mode = "" /\ p.tuning = ""
         /\ ResolveAuKTask(p) = AuKTaskOf(f)
BY AcceptedRow, AuKRow

-----------------------------------------------------------------------------
(* The inductive invariant.                                                 *)

\* Nothing has happened to a job that was not posted.
Before ==
  status = "none" => /\ payload = NoPayload /\ posted = NoPayload
                     /\ talked = {} /\ error = "none"

\* The row is the form's, and the voice is the form's unless it was deleted.
Chosen ==
  status # "none" =>
    /\ Accepts(form) /\ row = ParamsOf(form)
    /\ voice = form.voice \/ (form.voice \in Cloned /\ voice = "gone")
    /\ NeedsVoice(form, engine) => link \/ voice = "gone"

\* A request by its engine.
RequestOf(q) ==
  /\ q.to = engine
  /\ engine = "moss" => q.params = row /\ q.ref \in {"none", "clip"}
  /\ engine = "higgs" => /\ q.params = Unset /\ q.ref # "clip"
                         /\ q.ref = "long" => form.voice = "longclip"
  /\ engine = "breeze" => /\ q.params = BreezeParams /\ Instructed
                          /\ q.ref = IF row.mode = "design" THEN "none" ELSE "paired"
  /\ engine = "auk" => q.params = row
  /\ engine \in {"moss", "higgs"} /\ q.ref = "none" => form.voice = "stock" \/ voice = "gone"

Requests ==
  /\ payload # NoPayload => status = "queued" /\ RequestOf(payload)
  /\ posted # NoPayload =>
       status # "none" /\ RequestOf(posted) /\ (engine = "higgs" => posted.ref # "long")

IInv ==
  /\ TypeOK /\ Before /\ Chosen /\ Requests
  /\ StaysWithItsEngine /\ AcceptedIsBuildable /\ VerdictMatchesAnswer

Elsewhere == Build \/ Post \/ Poll \/ Restart

\* Only CreateJob and DeleteVoice touch the form, the row's fields or the voice.
LEMMA Frame ==
  ASSUME IInv, Elsewhere \/ UNCHANGED vars
  PROVE  /\ UNCHANGED <<form, row, link, voice>>
         /\ status = "none" <=> status' = "none"
<1>1. CASE Build
  BY <1>1 DEF Build, BuildMOSS, BuildHiggs, BuildBreeze, BuildBreezeFails, TranscriptFails,
              BuildAuK, Built, Building, Fail, jobVars
<1>2. CASE Post
  <2>1. payload # NoPayload
    BY <1>2 DEF Post, PostRefused, Accepted, Rejected, Posting
  <2>2. status = "queued"
    BY <2>1 DEF IInv, Requests
  <2> QED
    BY <1>2, <2>2 DEF Post, PostRefused, Accepted, Rejected, Posting, Fail
<1>3. CASE Poll
  BY <1>3 DEF Poll, PollRefused, PollFailed, PollCompleted, Polling, Fail, Becomes
<1>4. CASE Restart \/ UNCHANGED vars
  BY <1>4 DEF Restart, vars, jobVars
<1> QED
  BY <1>1, <1>2, <1>3, <1>4 DEF Elsewhere

LEMMA NextSplits ==
  ASSUME [Next]_vars
  PROVE  CreateJob \/ DeleteVoice \/ Elsewhere \/ UNCHANGED vars
BY DEF Next, Elsewhere

LEMMA NoRequest ==
  /\ NoPayload \in Payload /\ NoPayload.to = "none" /\ NoPayload.ref = "none"
  /\ NoPayload.params = Unset /\ "none" \notin Engine
<1>1. Unset \in Params
  BY UnsetParams
<1> QED
  BY <1>1 DEF NoPayload, Payload, Engine

\* What a chosen row is good for, engine by engine.
LEMMA ChosenRow ==
  ASSUME TypeOK, Chosen, status # "none"
  PROVE  /\ engine \in Engine /\ row \in Params /\ Encodable(row)
         /\ engine = "moss" => row = [Unset EXCEPT !.tuning = form.tuning, !.seed = form.seed]
         /\ engine = "breeze" =>
              /\ row.mode = form.mode /\ row.cfg = form.cfg
              /\ row.mode \in Modes /\ (row.mode # "clone" => row.instruct)
         /\ engine = "auk" =>
              /\ ValidateAuKInput(row) /\ NormalizeAuKInput(row) = row
              /\ row.seed = form.seed /\ row.mode = "" /\ row.tuning = ""
              /\ ResolveAuKTask(row) = AuKTaskOf(form)
         /\ NeedsVoice(form, engine) => form.voice \in Cloned \cup {"stock"}
<1>1. form \in Form /\ Accepts(form) /\ row = ParamsOf(form) /\ engine = ResolveModel(form)
  BY DEF TypeOK, Chosen, engine
<1>2. /\ engine \in Engine /\ row \in Params /\ Encodable(row)
      /\ NeedsVoice(form, engine) => form.voice \in Cloned \cup {"stock"}
  BY <1>1, AcceptedRow
<1>3. engine = "moss" => row = [Unset EXCEPT !.tuning = form.tuning, !.seed = form.seed]
  BY <1>1, MOSSRow
<1>4. engine = "breeze" =>
        /\ row.mode = form.mode /\ row.cfg = form.cfg
        /\ row.mode \in Modes /\ (row.mode # "clone" => row.instruct)
  BY <1>1, BreezeRow
<1>5. engine = "auk" =>
        /\ ValidateAuKInput(row) /\ NormalizeAuKInput(row) = row
        /\ row.seed = form.seed /\ row.mode = "" /\ row.tuning = ""
        /\ ResolveAuKTask(row) = AuKTaskOf(form)
  BY <1>1, AuKRowKept
<1> QED
  BY <1>2, <1>3, <1>4, <1>5

\* A voice the job could not read any more was deleted, or never was a clone.
LEMMA VoiceLost ==
  ASSUME TypeOK, Chosen, status # "none", NeedsVoice(form, engine), ~HasClip
  PROVE  form.voice = "stock" \/ voice = "gone"
<1>1. form.voice \in Cloned \cup {"stock"}
  BY ChosenRow
<1> QED
  BY <1>1 DEF Chosen, HasClip

LEMMA BreezeParamsTyped ==
  ASSUME row \in Params
  PROVE  /\ BreezeParams \in Params
         /\ BreezeParams.mode = row.mode
         /\ BreezeParams.instruct = (row.instruct /\ row.mode # "clone")
         /\ BreezeParams.cfg = (IF row.cfg \in {"", "zero"} THEN "default" ELSE row.cfg)
         /\ BreezeParams.tuning = "" /\ BreezeParams.task = "" /\ BreezeParams.gen = ""
<1> DEFINE q == BreezeParams
<1>1. /\ IsRecord(q) /\ q.mode = row.mode
      /\ q.cfg = (IF row.cfg \in {"", "zero"} THEN "default" ELSE row.cfg)
      /\ q.tuning = "" /\ q.seed = "" /\ q.task = "" /\ q.promptText = FALSE
      /\ q.audio = FALSE /\ q.prompt = FALSE /\ q.gen = "" /\ q.variant = "" /\ q.nfe = ""
  BY DEF BreezeParams, Unset, IsRecord
<1>2. q.instruct = (row.instruct /\ row.mode # "clone")
  BY DEF BreezeParams, Unset
<1>3. row.mode \in Modes \cup {""} /\ row.cfg \in {"", "zero", "range", "far", "nan", "default"}
  BY DEF Params
<1> HIDE DEF q
<1>4. q.instruct \in BOOLEAN
  BY <1>2, Zenon
<1>5. q.cfg \in {"", "zero", "range", "far", "nan", "default"}
  BY <1>1, <1>3
<1>6. q \in Params
  BY <1>1, <1>3, <1>4, <1>5, ParamsMember
<1> QED
  BY <1>1, <1>2, <1>6 DEF q

-----------------------------------------------------------------------------
(* Types.                                                                   *)

LEMMA TriesNat == MaxTries \in Nat /\ MaxTries > 0
<1>1. MaxTries \in Nat \ {0}
  BY EnginesAssumption, Zenon
<1> QED
  BY <1>1

LEMMA InitTyped == Init => TypeOK
<1> SUFFICES ASSUME Init PROVE TypeOK
  OBVIOUS
<1>1. NoForm \in Form
  BY DEF NoForm, Form
<1>2. NoAnswer \in Answer
  BY DEF NoAnswer, Answer
<1>3. configured \subseteq Engine
  BY EnginesAssumption DEF Init
<1> QED
  <2>1. tries \in 0..MaxTries
    <3>1. tries = 0
      BY DEF Init
    <3> QED
      BY ONLY <3>1, TriesNat
  <2>2. form \in Form /\ row \in Params /\ payload \in Payload /\ posted \in Payload /\ answer \in Answer
    BY <1>1, <1>2, NoRequest, UnsetParams DEF Init
  <2>3. /\ status \in {"none", "queued", "sent", "ready", "failed"} /\ link \in BOOLEAN
        /\ error = "none" /\ voice = "" /\ talked = {}
    BY DEF Init
  <2> QED
    BY <1>3, <2>1, <2>2, <2>3 DEF TypeOK

LEMMA BuiltTyped ==
  ASSUME TypeOK, engine \in Engine, NEW r \in {"none", "clip", "paired", "long"},
         NEW q \in Params, Built(r, q)
  PROVE  payload' \in Payload /\ UNCHANGED <<form, status, row, link, tries, error>>
BY DEF Built, Payload, jobVars

LEMMA FailTyped ==
  ASSUME TypeOK, Fail(error')
  PROVE  /\ status' \in {"none", "queued", "sent", "ready", "failed"}
         /\ payload' \in Payload /\ UNCHANGED <<form, row, link, tries>>
BY NoRequest DEF Fail

LEMMA ReasonTyped ==
  ASSUME NEW a \in Answers
  PROVE  failureReason(a) \in {"text", "envelope", "generic"}
BY EnginesAssumption DEF failureReason, Answer

LEMMA TypesStep ==
  ASSUME IInv, [Next]_vars
  PROVE  TypeOK'
<1>a. TypeOK
  BY DEF IInv
<1>b. status # "none" => engine \in Engine /\ row \in Params
  BY ChosenRow DEF IInv
<1>1. ASSUME CreateJob PROVE TypeOK'
  <2>1. PICK f \in Forms :
          /\ Accepts(f) /\ form' = f /\ voice' = f.voice /\ row' = ParamsOf(f)
          /\ link' = (\/ NeedsVoice(f, ResolveModel(f))
                      \/ ResolveModel(f) = "auk" /\ PromptVoice(f))
    BY <1>1 DEF CreateJob
  <2>2. f \in Form
    BY EnginesAssumption
  <2>3. row' \in Params
    BY <2>1, <2>2, AcceptedRow
  <2>4. voice' \in Cloned \cup {"", "stock", "gone"}
    BY <2>1, <2>2 DEF Form
  <2>5. link' \in BOOLEAN
    BY <2>1, Zenon
  <2> QED
    BY <1>a, <1>1, <2>1, <2>2, <2>3, <2>4, <2>5 DEF CreateJob, TypeOK
<1>2. ASSUME DeleteVoice PROVE TypeOK'
  BY <1>a, <1>2 DEF DeleteVoice, TypeOK
<1>3. ASSUME BuildMOSS PROVE TypeOK'
  <2>1. payload' \in Payload /\ UNCHANGED <<form, status, row, link, tries, error>>
    BY <1>a, <1>b, <1>3, BuiltTyped DEF BuildMOSS, Building
  <2> QED
    BY <1>a, <1>3, <2>1 DEF BuildMOSS, TypeOK
<1>4. ASSUME BuildHiggs PROVE TypeOK'
  <2>1. payload' \in Payload /\ UNCHANGED <<form, status, row, link, tries, error>>
    BY <1>a, <1>b, <1>4, BuiltTyped, UnsetParams DEF BuildHiggs, Building
  <2> QED
    BY <1>a, <1>4, <2>1 DEF BuildHiggs, TypeOK
<1>5. ASSUME BuildBreeze PROVE TypeOK'
  <2>1. BreezeParams \in Params
    BY <1>b, <1>5, BreezeParamsTyped DEF BuildBreeze, Building
  <2>2. payload' \in Payload /\ UNCHANGED <<form, status, row, link, tries, error>>
    BY <1>a, <1>b, <1>5, <2>1, BuiltTyped DEF BuildBreeze, Building
  <2> QED
    BY <1>a, <1>5, <2>2 DEF BuildBreeze, TypeOK
<1>6. ASSUME BuildBreezeFails \/ TranscriptFails PROVE TypeOK'
  <2>1. error' \in {"voice", "clip", "input", "transcript"} /\ Fail(error')
    BY <1>6 DEF BuildBreezeFails, TranscriptFails, Fail
  <2> QED
    BY <1>a, <1>6, <2>1, FailTyped DEF BuildBreezeFails, TranscriptFails, TypeOK
<1>7. ASSUME BuildAuK PROVE TypeOK'
  <2>1. Built("none", row)
    BY <1>7, ChosenRow DEF IInv, BuildAuK, Building
  <2>2. payload' \in Payload /\ UNCHANGED <<form, status, row, link, tries, error>>
    BY <1>a, <1>b, <1>7, <2>1, BuiltTyped DEF BuildAuK, Building
  <2> QED
    BY <1>a, <1>7, <2>2 DEF BuildAuK, TypeOK
<1>8. ASSUME PostRefused PROVE TypeOK'
  <2>1. error' \in {"endpoint", "clip", "input"} /\ Fail(error')
    BY <1>8 DEF PostRefused, Fail
  <2> QED
    BY <1>a, <1>8, <2>1, FailTyped DEF PostRefused, TypeOK
<1>9. ASSUME Accepted PROVE TypeOK'
  <2>1. payload.to \in Engine
    BY <1>a, <1>9 DEF Accepted, Posting, TypeOK
  <2> QED
    BY <1>a, <1>9, <2>1, NoRequest DEF Accepted, Posting, TypeOK
<1>10. ASSUME Rejected PROVE TypeOK'
  <2>1. talked' \subseteq Engine /\ posted' \in Payload
    BY <1>a, <1>10 DEF Rejected, Posting, TypeOK
  <2> DEFINE Kept ==
        /\ tries' \in 0..MaxTries /\ payload' \in Payload
        /\ status' \in {"none", "queued", "sent", "ready", "failed"}
        /\ error' = "runpod" \/ error' = error
        /\ UNCHANGED <<form, row, link>>
  <2>2. Kept
    <3>1. CASE Fail("runpod")
      BY <1>a, <3>1, NoRequest DEF Fail, TypeOK
    <3>2. ASSUME tries + 1 < MaxTries, tries' = tries + 1, payload' = NoPayload,
                 UNCHANGED <<form, status, row, link, error>>
          PROVE  Kept
      <4>1. tries' \in 0..MaxTries
        <5>1. tries \in 0..MaxTries
          BY <1>a DEF TypeOK
        <5>2. tries + 1 < MaxTries /\ tries' = tries + 1
          BY <3>2
        <5> QED
          BY ONLY <5>1, <5>2, TriesNat
      <4> QED
        BY <1>a, <3>2, <4>1, NoRequest DEF TypeOK
    <3> QED
      BY <1>10, <3>1, <3>2 DEF Rejected
  <2> QED
    BY <1>a, <1>10, <2>1, <2>2 DEF Rejected, TypeOK
<1>11. ASSUME PollRefused PROVE TypeOK'
  <2>1. error' = "endpoint" /\ Fail(error')
    BY <1>11 DEF PollRefused, Fail
  <2> QED
    BY <1>a, <1>11, <2>1, FailTyped DEF PollRefused, TypeOK
<1>12. ASSUME NEW a \in Answers, PollFailed(a) \/ PollCompleted(a) PROVE TypeOK'
  <2>1. talked' \subseteq Engine /\ answer' \in Answer
    BY <1>a, <1>12, EnginesAssumption DEF PollFailed, PollCompleted, Polling, StatusEndpoint, TypeOK
  <2>2. /\ status' \in {"ready", "failed"}
        /\ error' \in {"none", "text", "envelope", "generic", "output", "download", "no audio"}
    BY <1>12, ReasonTyped DEF PollFailed, PollCompleted, Becomes
  <2> QED
    BY <1>a, <1>12, <2>1, <2>2 DEF PollFailed, PollCompleted, Polling, Becomes, TypeOK
<1>13. ASSUME Restart PROVE TypeOK'
  BY <1>a, <1>13, NoRequest, EnginesAssumption DEF Restart, jobVars, TypeOK
<1>14. ASSUME UNCHANGED vars PROVE TypeOK'
  BY <1>a, <1>14 DEF vars, jobVars, TypeOK
<1> QED
  BY <1>1, <1>2, <1>3, <1>4, <1>5, <1>6, <1>7, <1>8, <1>9, <1>10, <1>11, <1>12, <1>13, <1>14
  DEF Next, Build, Post, Poll

-----------------------------------------------------------------------------
(* The row, and what is made of it.                                         *)

LEMMA BeforeStep ==
  ASSUME IInv, [Next]_vars
  PROVE  Before'
<1>1. ASSUME CreateJob PROVE Before'
  BY <1>1 DEF CreateJob, Before
<1>2. ASSUME DeleteVoice PROVE Before'
  BY <1>2 DEF DeleteVoice, IInv, Before
<1>3. ASSUME Elsewhere \/ UNCHANGED vars, status' = "none" PROVE Before'
  <2>1. /\ status = "none" /\ payload = NoPayload /\ posted = NoPayload
        /\ talked = {} /\ error = "none"
    BY <1>3, Frame DEF IInv, Before
  <2>2. ~Build /\ ~Post /\ ~Poll
    BY <2>1 DEF Build, BuildMOSS, BuildHiggs, BuildBreeze, BuildBreezeFails, TranscriptFails,
       BuildAuK, Building, Post, PostRefused, Accepted, Rejected, Posting,
       Poll, PollRefused, PollFailed, PollCompleted, Polling
  <2>3. Restart \/ UNCHANGED vars
    BY <1>3, <2>2 DEF Elsewhere
  <2> QED
    BY <2>1, <2>3 DEF Restart, vars, jobVars, Before
<1> QED
  BY <1>1, <1>2, <1>3, NextSplits DEF Before

LEMMA ChosenStep ==
  ASSUME IInv, [Next]_vars
  PROVE  Chosen'
<1>1. ASSUME CreateJob PROVE Chosen'
  <2>1. PICK f \in Forms :
          /\ Accepts(f) /\ form' = f /\ voice' = f.voice /\ row' = ParamsOf(f)
          /\ link' = (\/ NeedsVoice(f, ResolveModel(f))
                      \/ ResolveModel(f) = "auk" /\ PromptVoice(f))
    BY <1>1 DEF CreateJob
  <2>2. NeedsVoice(f, ResolveModel(f)) => link'
    BY <2>1
  <2> QED
    BY <2>1, <2>2 DEF Chosen, engine
<1>2. ASSUME DeleteVoice PROVE Chosen'
  <2>1. voice \in Cloned /\ voice # "gone" /\ voice' = "gone" /\ UNCHANGED <<form, status, row>>
    BY <1>2 DEF DeleteVoice, Cloned
  <2>2. status # "none" => form.voice \in Cloned
    BY <2>1 DEF IInv, Chosen
  <2> QED
    BY <2>1, <2>2 DEF IInv, Chosen, engine
<1>3. ASSUME Elsewhere \/ UNCHANGED vars PROVE Chosen'
  BY <1>3, Frame DEF IInv, Chosen, engine
<1> QED
  BY <1>1, <1>2, <1>3, NextSplits

\* Requests stay what they are while the row stays, even if the voice goes.
LEMMA RequestsKept ==
  ASSUME Requests, UNCHANGED <<form, row, posted>>, voice' = voice \/ voice' = "gone",
         status = "none" <=> status' = "none",
         (payload' = payload /\ status' = status) \/ payload' = NoPayload
  PROVE  Requests'
<1>1. engine' = engine /\ BreezeParams' = BreezeParams /\ Instructed' = Instructed
  BY DEF engine, BreezeParams, Instructed
<1>2. ASSUME posted # NoPayload PROVE RequestOf(posted)'
  <2>1. RequestOf(posted)
    BY <1>2 DEF Requests
  <2> QED
    BY <1>1, <2>1 DEF RequestOf
<1>3. ASSUME payload # NoPayload, payload' = payload PROVE RequestOf(payload)'
  <2>1. RequestOf(payload)
    BY <1>3 DEF Requests
  <2> QED
    BY <1>1, <1>3, <2>1 DEF RequestOf
<1> QED
  BY <1>1, <1>2, <1>3 DEF Requests, NoPayload

\* A request the worker has just built.
LEMMA RequestsBuilt ==
  ASSUME IInv, status = "queued", NEW r, NEW q, Built(r, q),
         UNCHANGED <<voice, posted>>, RequestOf([to |-> engine, ref |-> r, params |-> q])
  PROVE  Requests'
<1>1. /\ engine' = engine /\ BreezeParams' = BreezeParams /\ Instructed' = Instructed
      /\ UNCHANGED <<form, row, status>>
  BY DEF engine, BreezeParams, Instructed, Built, jobVars
<1>2. payload' = [to |-> engine, ref |-> r, params |-> q]
  BY DEF Built
<1>3. RequestOf(payload)'
  BY <1>1, <1>2 DEF RequestOf
<1>4. ASSUME posted # NoPayload PROVE RequestOf(posted)'
  <2>1. RequestOf(posted)
    BY <1>4 DEF IInv, Requests
  <2> QED
    BY <1>1, <2>1 DEF RequestOf
<1> QED
  BY <1>1, <1>3, <1>4 DEF IInv, Requests, NoPayload

\* A request that leaves.
LEMMA RequestsPosted ==
  ASSUME IInv, Accepted \/ Rejected
  PROVE  Requests'
<1>1. /\ payload # NoPayload /\ posted' = payload /\ ClientAccepts(payload)
      /\ payload' = NoPayload /\ UNCHANGED <<form, row, voice>> /\ status' # "none"
  BY DEF IInv, Requests, Accepted, Rejected, Posting, Fail
<1>2. engine' = engine /\ BreezeParams' = BreezeParams /\ Instructed' = Instructed
  BY <1>1 DEF engine, BreezeParams, Instructed
<1>3. RequestOf(payload) /\ payload.to = engine
  BY <1>1 DEF IInv, Requests, RequestOf
<1>4. RequestOf(posted)'
  BY <1>1, <1>2, <1>3 DEF RequestOf
<1>5. engine = "higgs" => payload.ref # "long"
  BY <1>1, <1>3 DEF ClientAccepts
<1> QED
  BY <1>1, <1>2, <1>4, <1>5 DEF Requests, NoPayload

LEMMA RequestStep ==
  ASSUME IInv, [Next]_vars
  PROVE  Requests'
<1>a. TypeOK /\ Before /\ Chosen /\ Requests
  BY DEF IInv
<1>1. ASSUME CreateJob PROVE Requests'
  BY <1>a, <1>1 DEF CreateJob, Before, Requests, NoPayload
<1>2. ASSUME DeleteVoice PROVE Requests'
  BY <1>a, <1>2, RequestsKept DEF DeleteVoice
<1>3. ASSUME BuildMOSS PROVE Requests'
  <2> DEFINE r == IF HasClip THEN "clip" ELSE "none"
  <2>1. /\ status = "queued" /\ engine = "moss" /\ Built(r, row) /\ UNCHANGED <<voice, posted>>
    BY <1>3 DEF BuildMOSS, Building
  <2>2. r = "none" => form.voice = "stock" \/ voice = "gone"
    BY <1>a, <2>1, VoiceLost DEF NeedsVoice
  <2>3. RequestOf([to |-> engine, ref |-> r, params |-> row])
    BY <2>1, <2>2 DEF RequestOf
  <2> QED
    BY <2>1, <2>3, RequestsBuilt
<1>4. ASSUME BuildHiggs PROVE Requests'
  <2> DEFINE r == IF ~HasClip THEN "none" ELSE IF voice = "longclip" THEN "long" ELSE "paired"
  <2>1. /\ status = "queued" /\ engine = "higgs" /\ Built(r, Unset) /\ UNCHANGED <<voice, posted>>
    BY <1>4 DEF BuildHiggs, Building
  <2>2. r = "none" => form.voice = "stock" \/ voice = "gone"
    BY <1>a, <2>1, VoiceLost DEF NeedsVoice
  <2>3. r = "long" => form.voice = "longclip"
    BY <1>a, <2>1 DEF Chosen
  <2>4. RequestOf([to |-> engine, ref |-> r, params |-> Unset])
    BY <2>1, <2>2, <2>3 DEF RequestOf
  <2> QED
    BY <2>1, <2>4, RequestsBuilt
<1>5. ASSUME BuildBreeze PROVE Requests'
  <2> DEFINE r == IF row.mode = "design" THEN "none" ELSE "paired"
  <2>1. /\ status = "queued" /\ engine = "breeze" /\ Instructed
        /\ Built(r, BreezeParams) /\ UNCHANGED <<voice, posted>>
    BY <1>5 DEF BuildBreeze, Building
  <2>2. RequestOf([to |-> engine, ref |-> r, params |-> BreezeParams])
    BY <2>1 DEF RequestOf
  <2> QED
    BY <2>1, <2>2, RequestsBuilt
<1>6. ASSUME BuildBreezeFails \/ TranscriptFails PROVE Requests'
  BY <1>a, <1>6, RequestsKept
  DEF BuildBreezeFails, TranscriptFails, Building, Fail
<1>7. ASSUME BuildAuK PROVE Requests'
  <2>1. /\ status = "queued" /\ engine = "auk" /\ UNCHANGED <<voice, posted>>
    BY <1>7 DEF BuildAuK, Building
  <2>2. Built("none", row)
    BY <1>a, <1>7, <2>1, ChosenRow DEF BuildAuK
  <2>3. RequestOf([to |-> engine, ref |-> "none", params |-> row])
    BY <2>1 DEF RequestOf
  <2> QED
    BY <2>1, <2>2, <2>3, RequestsBuilt
<1>8. ASSUME PostRefused PROVE Requests'
  <2>1. status = "queued"
    BY <1>a, <1>8 DEF PostRefused, Requests
  <2> QED
    BY <1>a, <1>8, <2>1, RequestsKept DEF PostRefused, Fail
<1>9. ASSUME Accepted \/ Rejected PROVE Requests'
  BY <1>9, RequestsPosted
<1>10. ASSUME Poll PROVE Requests'
  <2>1. /\ status = "sent" /\ status' \in {"failed", "ready"}
        /\ UNCHANGED <<form, row, posted, voice>>
        /\ payload' = payload \/ payload' = NoPayload
    BY <1>10 DEF Poll, PollRefused, PollFailed, PollCompleted, Polling, Becomes, Fail
  <2>2. payload = NoPayload
    BY <1>a, <2>1 DEF Requests
  <2> QED
    BY <1>a, <2>1, <2>2, RequestsKept
<1>11. ASSUME Restart \/ UNCHANGED vars PROVE Requests'
  BY <1>a, <1>11, RequestsKept DEF Restart, vars, jobVars
<1> QED
  BY <1>1, <1>2, <1>3, <1>4, <1>5, <1>6, <1>7, <1>8, <1>9, <1>10, <1>11
  DEF Next, Build, Post

-----------------------------------------------------------------------------
(* What became of the job.                                                  *)

LEMMA TalkStep ==
  ASSUME IInv, [Next]_vars
  PROVE  StaysWithItsEngine'
<1>1. ASSUME CreateJob PROVE StaysWithItsEngine'
  BY <1>1 DEF IInv, CreateJob, Before, StaysWithItsEngine
<1>2. ASSUME DeleteVoice \/ Build \/ PostRefused \/ PollRefused \/ Restart \/ UNCHANGED vars
      PROVE  StaysWithItsEngine'
  <2>1. UNCHANGED <<form, talked>>
    BY <1>2 DEF DeleteVoice, Build, BuildMOSS, BuildHiggs, BuildBreeze, BuildBreezeFails,
       TranscriptFails, BuildAuK, Built, Fail, PostRefused, PollRefused, Restart, vars, jobVars
  <2> QED
    BY <2>1 DEF IInv, StaysWithItsEngine, engine
<1>3. ASSUME Accepted \/ Rejected PROVE StaysWithItsEngine'
  <2>1. payload # NoPayload /\ talked' = talked \cup {payload.to} /\ UNCHANGED form
    BY <1>3 DEF Accepted, Rejected, Posting, Fail
  <2>2. payload.to = engine
    BY <2>1 DEF IInv, Requests, RequestOf
  <2> QED
    BY <2>1, <2>2 DEF IInv, StaysWithItsEngine, engine
<1>4. ASSUME NEW a \in Answers, PollFailed(a) \/ PollCompleted(a) PROVE StaysWithItsEngine'
  BY <1>4 DEF IInv, PollFailed, PollCompleted, Polling, Becomes, StatusEndpoint,
              StaysWithItsEngine, engine
<1> QED
  BY <1>1, <1>2, <1>3, <1>4 DEF Next, Post, Poll

\* A step that does not fail the job, or fails it for another reason.
LEMMA OtherCause ==
  ASSUME IInv, UNCHANGED form, voice' = voice \/ voice' = "gone",
         error' = error \/ error' \notin {"input", "voice", "clip", "transcript"}
  PROVE  AcceptedIsBuildable'
BY DEF IInv, AcceptedIsBuildable, engine

LEMMA CauseStep ==
  ASSUME IInv, [Next]_vars
  PROVE  AcceptedIsBuildable'
<1>a. TypeOK /\ Before /\ Chosen /\ Requests
  BY DEF IInv
<1>1. ASSUME CreateJob PROVE AcceptedIsBuildable'
  BY <1>a, <1>1 DEF CreateJob, Before, AcceptedIsBuildable
<1>2. ASSUME DeleteVoice \/ BuildMOSS \/ BuildHiggs \/ BuildBreeze
             \/ Accepted \/ Rejected \/ Restart \/ UNCHANGED vars
      PROVE  AcceptedIsBuildable'
  BY <1>2, OtherCause
  DEF DeleteVoice, BuildMOSS, BuildHiggs, BuildBreeze, Built, Accepted, Rejected, Fail,
      Posting, Restart, vars, jobVars
<1>3. ASSUME BuildBreezeFails PROVE AcceptedIsBuildable'
  <2>1. status = "queued" /\ engine = "breeze" /\ UNCHANGED <<form, voice>>
    BY <1>3 DEF BuildBreezeFails, Building, Fail
  <2>2. Instructed /\ row.mode = form.mode
    BY <1>a, <2>1, ChosenRow DEF Instructed
  <2>3. error' = (IF HasClip THEN "clip" ELSE "voice") /\ ~BreezeVoiced
    BY <1>3, <2>2 DEF BuildBreezeFails, Fail
  <2>4. form.mode # "design" /\ (HasClip => voice = "longclip")
    BY <2>2, <2>3 DEF BreezeVoiced
  <2>5. ~HasClip => form.voice = "stock" \/ voice = "gone"
    BY <1>a, <2>1, <2>4, VoiceLost DEF NeedsVoice
  <2>6. HasClip => form.voice = "longclip"
    BY <1>a, <2>1, <2>4 DEF Chosen
  <2> QED
    BY <2>1, <2>3, <2>4, <2>5, <2>6 DEF AcceptedIsBuildable, engine
<1>4. ASSUME TranscriptFails PROVE AcceptedIsBuildable'
  <2>1. /\ status = "queued" /\ engine \in {"higgs", "breeze"} /\ UNCHANGED <<form, voice>>
        /\ HasClip /\ error' = "transcript"
    BY <1>4 DEF TranscriptFails, Building, Fail
  <2>2. form.voice \in Cloned
    BY <1>a, <2>1 DEF HasClip, Chosen
  <2> QED
    BY <2>1, <2>2 DEF AcceptedIsBuildable, engine
<1>5. ASSUME BuildAuK PROVE AcceptedIsBuildable'
  <2>1. Built("none", row) /\ UNCHANGED voice
    BY <1>a, <1>5, ChosenRow DEF BuildAuK, Building
  <2> QED
    BY <2>1, OtherCause DEF Built, jobVars
<1>6. ASSUME PostRefused PROVE AcceptedIsBuildable'
  <2>1. payload # NoPayload /\ UNCHANGED <<form, voice>>
    BY <1>6 DEF PostRefused, Fail
  <2>2. status = "queued" /\ RequestOf(payload)
    BY <1>a, <2>1 DEF Requests
  <2>3. ASSUME ~ClientAccepts(payload)
        PROVE  engine = "higgs" /\ payload.ref = "long" /\ form.voice = "longclip"
    <3>1. engine \in Engine /\ row \in Params
      BY <1>a, <2>2, ChosenRow
    <3>2. engine # "moss"
      BY <2>2, <2>3 DEF RequestOf, ClientAccepts
    <3>3. engine # "breeze"
      <4> SUFFICES ASSUME engine = "breeze" PROVE ClientAccepts(payload)
        BY <2>3
      <4>1. /\ payload.to = "breeze" /\ payload.params = BreezeParams /\ Instructed
            /\ payload.ref = IF row.mode = "design" THEN "none" ELSE "paired"
        BY <2>2 DEF RequestOf
      <4>2. /\ payload.params.mode = row.mode /\ row.mode \in Modes
            /\ payload.params.instruct = (row.instruct /\ row.mode # "clone")
        BY <3>1, <4>1, BreezeParamsTyped DEF Instructed, Modes
      <4>3. row.mode # "clone" => row.instruct
        BY <4>1 DEF Instructed
      <4> QED
        BY <4>1, <4>2, <4>3 DEF ClientAccepts, ValidateBreezeInput
    <3>4. engine # "auk"
      <4> SUFFICES ASSUME engine = "auk" PROVE ClientAccepts(payload)
        BY <2>3
      <4>1. payload.to = "auk" /\ payload.params = row
        BY <2>2 DEF RequestOf
      <4>2. ValidateAuKInput(row) /\ NormalizeAuKInput(row) = row
        BY <1>a, <2>2, ChosenRow
      <4> QED
        BY <4>1, <4>2 DEF ClientAccepts
    <3>5. engine = "higgs"
      BY <3>1, <3>2, <3>3, <3>4 DEF Engine
    <3> QED
      BY <2>2, <2>3, <3>5 DEF RequestOf, ClientAccepts
  <2>4. CASE Fail("endpoint")
    BY <2>1, <2>4, OtherCause DEF Fail
  <2>5. ASSUME ~ClientAccepts(payload), Fail(IF payload.ref = "long" THEN "clip" ELSE "input")
        PROVE  AcceptedIsBuildable'
    <3>1. engine = "higgs" /\ form.voice = "longclip" /\ error' = "clip"
      BY <2>3, <2>5 DEF Fail
    <3> QED
      BY <2>1, <3>1 DEF AcceptedIsBuildable, engine
  <2> QED
    BY <1>6, <2>4, <2>5 DEF PostRefused
<1>7. ASSUME Poll PROVE AcceptedIsBuildable'
  <2>1. /\ UNCHANGED <<form, voice>>
        /\ error' \notin {"input", "voice", "clip", "transcript"}
    BY <1>7, ReasonTyped
    DEF Poll, PollRefused, PollFailed, PollCompleted, Polling, Becomes, Fail
  <2> QED
    BY <2>1, OtherCause
<1> QED
  BY <1>1, <1>2, <1>3, <1>4, <1>5, <1>6, <1>7 DEF Next, Build, Post

\* The stream's last element with audio is there to be picked.
LEMMA LastInline ==
  ASSUME NEW out \in Seq(Chunk), Inline(out) # {}
  PROVE  Picked(out) \in {"audio", "torn"} /\ \E i \in 1..Len(out) : out[i] = Picked(out)
<1> DEFINE n == Len(out)
           T == {n - i : i \in Inline(out)}
           Less == OpToRel(<, Nat)
           Last(i) == i \in Inline(out) /\ \A k \in Inline(out) : k <= i
<1>1. n \in Nat /\ Inline(out) \subseteq 1..n
  BY DEF Inline
<1>2. T \subseteq Nat /\ T # {}
  BY <1>1
<1>3. PICK t \in T : \A u \in T : <<u, t>> \notin Less
  BY <1>2, NatLessThanWellFounded, WFMin
<1>4. ASSUME NEW u \in T PROVE t <= u
  <2>1. <<u, t>> \notin {s \in Nat \X Nat : s[1] < s[2]}
    BY <1>3 DEF OpToRel
  <2> QED
    BY <1>2, <2>1
<1>5. PICK i \in Inline(out) : t = n - i
  OBVIOUS
<1>6. ASSUME NEW k \in Inline(out) PROVE k <= i
  <2>1. n - k \in T
    OBVIOUS
  <2>2. n - i <= n - k
    BY <1>4, <1>5, <2>1
  <2> QED
    BY <1>1, <2>2
<1>7. out # <<>>
  BY <1>1
<1>8. PICK j \in Inline(out) : Picked(out) = out[j]
  <2> DEFINE j == CHOOSE j \in Inline(out) : \A k \in Inline(out) : k <= j
  <2>1. j \in Inline(out)
    BY <1>6
  <2>2. Picked(out) = out[j]
    BY <1>7 DEF Picked
  <2> QED
    BY <2>1, <2>2
<1> QED
  BY <1>8 DEF Inline

LEMMA PickedHeld ==
  ASSUME NEW out \in Seq(Chunk)
  PROVE  /\ Picked(out) = "blank" \/ \E i \in 1..Len(out) : out[i] = Picked(out)
         /\ (\E i \in 1..Len(out) : out[i] = "audio") => Picked(out) \in {"audio", "torn"}
         /\ Len(out) = 1 => Picked(out) = out[1]
<1>1. CASE Inline(out) # {}
  <2>1. Picked(out) \in {"audio", "torn"} /\ \E i \in 1..Len(out) : out[i] = Picked(out)
    BY <1>1, LastInline
  <2>2. Len(out) = 1 => Picked(out) = out[1]
    BY <2>1
  <2> QED
    BY <2>1, <2>2
<1>2. CASE Inline(out) = {}
  <2>1. ~\E i \in 1..Len(out) : out[i] = "audio"
    BY <1>2 DEF Inline
  <2>2. Picked(out) = IF out = <<>> THEN "blank" ELSE out[Len(out)]
    BY <1>2 DEF Picked
  <2>3. out # <<>> => Len(out) \in 1..Len(out)
    OBVIOUS
  <2>4. Len(out) = 1 => out # <<>>
    OBVIOUS
  <2> QED
    BY <2>1, <2>2, <2>3, <2>4
<1> QED
  BY <1>1, <1>2

\* Steps that hear nothing from the engine.
LEMMA OtherVerdict ==
  ASSUME VerdictMatchesAnswer, UNCHANGED <<form, answer>>,
         \/ UNCHANGED <<status, error>>
         \/ status' # "ready" /\ error' \notin {"no audio", "generic", "output"}
         \/ status' = status /\ error' = error
  PROVE  VerdictMatchesAnswer'
BY DEF VerdictMatchesAnswer, engine

LEMMA VerdictStep ==
  ASSUME IInv, [Next]_vars
  PROVE  VerdictMatchesAnswer'
<1>a. TypeOK /\ Before /\ VerdictMatchesAnswer
  BY DEF IInv
<1>1. ASSUME CreateJob PROVE VerdictMatchesAnswer'
  BY <1>a, <1>1 DEF CreateJob, Before, VerdictMatchesAnswer
<1>2. ASSUME DeleteVoice \/ BuildMOSS \/ BuildHiggs \/ BuildBreeze \/ BuildBreezeFails
             \/ TranscriptFails
      PROVE  VerdictMatchesAnswer'
  BY <1>a, <1>2, OtherVerdict
  DEF DeleteVoice, BuildMOSS, BuildHiggs, BuildBreeze, BuildBreezeFails, TranscriptFails,
      Built, Fail, jobVars
<1>3. ASSUME BuildAuK PROVE VerdictMatchesAnswer'
  BY <1>a, <1>3, OtherVerdict DEF BuildAuK, Built, Fail, jobVars
<1>4. ASSUME PostRefused \/ PollRefused PROVE VerdictMatchesAnswer'
  <2>1. /\ UNCHANGED <<form, answer>> /\ status' = "failed"
        /\ error' \in {"endpoint", "clip", "input"}
    BY <1>4 DEF PostRefused, PollRefused, Fail
  <2> QED
    BY <1>a, <2>1, OtherVerdict
<1>5. ASSUME Accepted PROVE VerdictMatchesAnswer'
  <2>1. error' = error /\ status' = "sent" /\ UNCHANGED <<form, answer>>
    BY <1>5 DEF Accepted
  <2> QED
    BY <1>a, <2>1 DEF VerdictMatchesAnswer, engine
<1>6. ASSUME Rejected PROVE VerdictMatchesAnswer'
  <2>1. /\ UNCHANGED <<form, answer>>
        /\ UNCHANGED <<status, error>> \/ (status' = "failed" /\ error' = "runpod")
    BY <1>6 DEF Rejected, Fail
  <2> QED
    BY <1>a, <2>1, OtherVerdict
<1>7. ASSUME Restart \/ UNCHANGED vars PROVE VerdictMatchesAnswer'
  BY <1>a, <1>7, OtherVerdict DEF Restart, vars, jobVars
<1>8. ASSUME NEW a \in Answers, PollFailed(a) \/ PollCompleted(a) PROVE VerdictMatchesAnswer'
  <2> DEFINE out == a.output
  <2>1. out \in Seq(Chunk) /\ answer' = a /\ engine' = engine
    BY <1>8, EnginesAssumption
    DEF Answer, PollFailed, PollCompleted, Polling, Becomes, engine
  <2>2. /\ Picked(out) = "blank" \/ \E i \in 1..Len(out) : out[i] = Picked(out)
        /\ (\E i \in 1..Len(out) : out[i] = "audio") => Picked(out) \in {"audio", "torn"}
        /\ Len(out) = 1 => Picked(out) = out[1]
    BY <2>1, PickedHeld
  <2> HIDE DEF out
  <2>3. CASE PollFailed(a)
    <3>1. status' = "failed" /\ error' = failureReason(a)
      BY <2>3 DEF PollFailed, Becomes
    <3>2. error' = "generic" =>
            /\ a.error = "none"
            /\ ~(engine \in {"breeze", "auk"} /\ Picked(out) = "envelope")
      BY <3>1, EnginesAssumption DEF failureReason, Answer, out
    <3>3. Len(out) = 1 /\ Picked(out) # "envelope" => ~\E i \in 1..Len(out) : out[i] = "envelope"
      BY <2>2
    <3> QED
      BY <2>1, <3>1, <3>2, <3>3, ReasonTyped DEF VerdictMatchesAnswer, out
  <2>4. CASE PollCompleted(a)
    <3>1. /\ a.status = "COMPLETED"
          /\ \/ Picked(out) \in {"audio", "url"} /\ status' = "ready" /\ error' = "none"
             \/ Picked(out) = "torn" /\ status' = "failed" /\ error' = "output"
             \/ status' = "failed" /\ error' = "download"
             \/ Picked(out) \in {"blank", "envelope"} /\ status' = "failed" /\ error' = "no audio"
      BY <2>4 DEF PollCompleted, Becomes, out
    <3>2. Len(out) = 1 /\ Picked(out) # "url" => ~\E i \in 1..Len(out) : out[i] = "url"
      BY <2>2
    <3> QED
      BY <2>1, <2>2, <3>1, <3>2 DEF VerdictMatchesAnswer, out
  <2> QED
    BY <1>8, <2>3, <2>4
<1> QED
  BY <1>1, <1>2, <1>3, <1>4, <1>5, <1>6, <1>7, <1>8 DEF Next, Build, Post, Poll

-----------------------------------------------------------------------------
(* Theorems.                                                                *)

\* The invariant is inductive.
THEOREM Inductive == Spec => []IInv
<1>1. Init => IInv
  <2> SUFFICES ASSUME Init PROVE IInv
    OBVIOUS
  <2>1. Before /\ Chosen /\ StaysWithItsEngine /\ AcceptedIsBuildable
    BY DEF Init, Before, Chosen, StaysWithItsEngine, AcceptedIsBuildable
  <2>2. Requests /\ VerdictMatchesAnswer
    BY DEF Init, Requests, VerdictMatchesAnswer
  <2> QED
    BY <2>1, <2>2, InitTyped DEF IInv
<1>2. IInv /\ [Next]_vars => IInv'
  BY TypesStep, BeforeStep, ChosenStep, RequestStep, TalkStep, CauseStep, VerdictStep DEF IInv
<1> QED
  BY <1>1, <1>2, PTL DEF Spec

\* Every variable keeps its type (TypeOK).
THEOREM TypeCorrect == Spec => []TypeOK
<1>1. IInv => TypeOK
  BY DEF IInv
<1> QED
  BY <1>1, Inductive, PTL

\* What left for an engine is what was built for it.
LEMMA PostedRequest ==
  ASSUME IInv, posted # NoPayload
  PROVE  /\ status # "none" /\ RequestOf(posted) /\ (engine = "higgs" => posted.ref # "long")
         /\ engine \in Engine /\ row \in Params /\ Encodable(row)
         /\ posted.ref \in {"none", "clip", "paired", "long"}
<1>1. status # "none" /\ RequestOf(posted) /\ (engine = "higgs" => posted.ref # "long")
  BY DEF IInv, Requests
<1>2. engine \in Engine /\ row \in Params /\ Encodable(row)
  BY <1>1, ChosenRow DEF IInv
<1>3. posted.ref \in {"none", "clip", "paired", "long"}
  BY DEF IInv, TypeOK, Payload
<1> QED
  BY <1>1, <1>2, <1>3

\* Every request that leaves is one the engine's worker takes (ContractMet).
THEOREM ContractAlwaysMet == Spec => []ContractMet
<1>1. ASSUME IInv, posted = NoPayload PROVE ContractMet
  <2>1. Encodable(Unset)
    BY DEF Encodable, Unset
  <2>2. posted.to \notin Engine /\ posted.params = Unset
    BY <1>1, NoRequest
  <2> QED
    BY <2>1, <2>2 DEF ContractMet, Engine
<1>2. ASSUME IInv, posted # NoPayload PROVE ContractMet
  <2>1. /\ RequestOf(posted) /\ posted.to = engine /\ (engine = "higgs" => posted.ref # "long")
        /\ engine \in Engine /\ row \in Params /\ Encodable(row)
        /\ posted.ref \in {"none", "clip", "paired", "long"} /\ status # "none"
    BY <1>2, PostedRequest DEF RequestOf
  <2>2. CASE engine = "moss"
    BY <2>1, <2>2 DEF RequestOf, ContractMet
  <2>3. CASE engine = "higgs"
    <3>1. Encodable(Unset)
      BY DEF Encodable, Unset
    <3>2. posted.params = Unset /\ posted.ref \notin {"long", "clip"}
      BY <2>1, <2>3 DEF RequestOf
    <3> QED
      BY <2>1, <2>3, <3>1, <3>2 DEF ContractMet
  <2>4. CASE engine = "breeze"
    <3>1. /\ posted.params = BreezeParams /\ Instructed
          /\ posted.ref = IF row.mode = "design" THEN "none" ELSE "paired"
      BY <2>1, <2>4 DEF RequestOf
    <3>2. /\ BreezeParams.mode = row.mode /\ BreezeParams.tuning = "" /\ BreezeParams.gen = ""
          /\ BreezeParams.instruct = (row.instruct /\ row.mode # "clone")
          /\ BreezeParams.cfg = (IF row.cfg \in {"", "zero"} THEN "default" ELSE row.cfg)
      BY <2>1, BreezeParamsTyped
    <3>3. Encodable(BreezeParams)
      BY <2>1, <3>2 DEF Encodable
    <3>4. BreezeContract(posted)
      BY <3>1, <3>2 DEF BreezeContract, Instructed, Modes
    <3> QED
      BY <2>1, <2>4, <3>1, <3>3, <3>4 DEF ContractMet
  <2>5. CASE engine = "auk"
    <3>1. posted.params = row
      BY <2>1, <2>5 DEF RequestOf
    <3>2. ValidateAuKInput(row)
      BY <1>2, <2>1, <2>5, ChosenRow DEF IInv
    <3>3. AuKContract(row)
      BY <2>1, <3>2, AuKRowContract
    <3> QED
      BY <2>1, <2>5, <3>1, <3>3 DEF ContractMet
  <2> QED
    BY <2>1, <2>2, <2>3, <2>4, <2>5 DEF Engine
<1>3. IInv => ContractMet
  BY <1>1, <1>2
<1> QED
  BY <1>3, Inductive, PTL

\* What the form passed never fails for its fields later (AcceptedIsBuildable).
THEOREM AcceptedAlwaysBuildable == Spec => []AcceptedIsBuildable
<1>1. IInv => AcceptedIsBuildable
  BY DEF IInv
<1> QED
  BY <1>1, Inductive, PTL

\* A request says what the form said, and only that (RequestKept).
THEOREM RequestAlwaysKept == Spec => []RequestKept
<1>1. ASSUME IInv, posted # NoPayload
      PROVE  RequestKept
  <2>1. /\ RequestOf(posted) /\ posted.to = engine
        /\ engine \in Engine /\ row \in Params /\ status # "none"
    BY <1>1, PostedRequest DEF RequestOf
  <2>2. engine = "moss" =>
          posted.params = [Unset EXCEPT !.tuning = form.tuning, !.seed = form.seed]
    BY <1>1, <2>1, ChosenRow DEF IInv, RequestOf
  <2>3. engine = "higgs" => posted.params = Unset
    BY <2>1 DEF RequestOf
  <2>4. engine = "breeze" =>
          /\ posted.params.mode = form.mode /\ posted.params.tuning = ""
          /\ posted.params.task = "" /\ posted.params.cfg \in {form.cfg, "default"}
    <3> SUFFICES ASSUME engine = "breeze"
                 PROVE  /\ posted.params.mode = form.mode /\ posted.params.tuning = ""
                        /\ posted.params.task = "" /\ posted.params.cfg \in {form.cfg, "default"}
      OBVIOUS
    <3>1. posted.params = BreezeParams
      BY <2>1 DEF RequestOf
    <3>2. row.mode = form.mode /\ row.cfg = form.cfg
      BY <1>1, <2>1, ChosenRow DEF IInv
    <3> QED
      BY <2>1, <3>1, <3>2, BreezeParamsTyped
  <2>5. engine = "auk" =>
          /\ ResolveAuKTask(posted.params) = AuKTaskOf(form)
          /\ posted.params.seed = form.seed /\ posted.params.mode = ""
          /\ posted.params.tuning = ""
    BY <1>1, <2>1, ChosenRow DEF IInv, RequestOf
  <2>6. engine \in {"moss", "higgs"} /\ posted.ref = "none"
          => form.voice = "stock" \/ voice = "gone"
    BY <2>1 DEF RequestOf
  <2> QED
    BY <2>1, <2>2, <2>3, <2>4, <2>5, <2>6 DEF RequestKept
<1>2. IInv => RequestKept
  BY <1>1 DEF RequestKept
<1> QED
  BY <1>2, Inductive, PTL

\* A job's verdict is the engine's answer (VerdictMatchesAnswer).
THEOREM VerdictAlwaysMatches == Spec => []VerdictMatchesAnswer
<1>1. IInv => VerdictMatchesAnswer
  BY DEF IInv
<1> QED
  BY <1>1, Inductive, PTL

\* A job talks to its own engine only (StaysWithItsEngine).
THEOREM AlwaysOwnEngine == Spec => []StaysWithItsEngine
<1>1. IInv => StaysWithItsEngine
  BY DEF IInv
<1> QED
  BY <1>1, Inductive, PTL
\* Normalisation is done once (NormalizeAuKInput): a second time, in the worker,
\* it finds nothing left to fill in, whatever the client's input was.
THEOREM NormalizesOnce ==
  ASSUME NEW in, IsRecord(in)
  PROVE  NormalizeAuKInput(NormalizeAuKInput(in)) = NormalizeAuKInput(in)
<1> DEFINE p == NormalizeAuKInput(in)
           q == NormalizeAuKInput(p)
<1>1. /\ IsRecord(p)
      /\ p.task = IF in.task = "" THEN "auto" ELSE in.task
      /\ p.variant = IF in.variant = "" THEN "flash" ELSE in.variant
      /\ p.nfe = IF in.nfe \notin {"", "zero"} THEN in.nfe
                 ELSE IF in.variant = "base" THEN "base" ELSE "flash"
      /\ p.cfg = IF in.variant # "base" THEN "zero"
                 ELSE IF in.cfg \in {"", "zero"} THEN "range" ELSE in.cfg
  BY NormalFields
<1> HIDE DEF p
<1>2. /\ p.task # "" /\ p.variant # "" /\ p.nfe \notin {"", "zero"}
      /\ p.cfg = "zero" <=> p.variant # "base"
      /\ p.cfg # ""
  BY <1>1
<1>3. /\ IsRecord(q)
      /\ q.mode = p.mode /\ q.instruct = p.instruct /\ q.tuning = p.tuning
      /\ q.seed = p.seed /\ q.promptText = p.promptText /\ q.audio = p.audio
      /\ q.prompt = p.prompt /\ q.gen = p.gen
  BY <1>1, NormalFields
<1>4. /\ q.task = IF p.task = "" THEN "auto" ELSE p.task
      /\ q.variant = IF p.variant = "" THEN "flash" ELSE p.variant
      /\ q.nfe = IF p.nfe \notin {"", "zero"} THEN p.nfe
                 ELSE IF p.variant = "base" THEN "base" ELSE "flash"
      /\ q.cfg = IF p.variant # "base" THEN "zero"
                 ELSE IF p.cfg \in {"", "zero"} THEN "range" ELSE p.cfg
  BY <1>1, NormalFields
<1> HIDE DEF q
<1>5. q.task = p.task /\ q.variant = p.variant /\ q.nfe = p.nfe /\ q.cfg = p.cfg
  BY <1>2, <1>4
<1>6. q = p
  BY <1>1, <1>3, <1>5, ParamsEqual
<1> QED
  BY <1>6 DEF p, q

\* The two validations of an AuK job agree (parseAuKJobParams, buildAuKInput):
\* the row of an accepted form passes the worker's, which changes nothing in it,
\* renders the task the form asked for, and is what AuK's worker takes.
THEOREM AuKSettledByTheForm ==
  ASSUME NEW f \in Form, Accepts(f), ResolveModel(f) = "auk"
  PROVE  /\ NormalizeAuKInput(ParamsOf(f)) = ParamsOf(f)
         /\ ValidateAuKInput(ParamsOf(f))
         /\ ResolveAuKTask(ParamsOf(f)) = AuKTaskOf(f)
         /\ AuKContract(ParamsOf(f))
<1>1. ParamsOf(f) \in Params /\ ValidateAuKInput(ParamsOf(f)) /\ Encodable(ParamsOf(f))
  BY AuKRowKept, AcceptedRow
<1> QED
  BY <1>1, AuKRowKept, AuKRowContract

\* What is picked of a streamed answer, of any length (Output.UnmarshalJSON): the
\* last element with inline audio, wherever it is, and otherwise the last one.
THEOREM PicksTheLastAudio ==
  ASSUME NEW out \in Seq(Chunk), NEW i \in 1..Len(out)
  PROVE  /\ out[i] \in {"audio", "torn"}
              /\ (\A k \in 1..Len(out) : out[k] \in {"audio", "torn"} => k <= i)
              => Picked(out) = out[i]
         /\ out[i] = "audio" => Picked(out) \in {"audio", "torn"}
         /\ i = Len(out) /\ (\A k \in 1..Len(out) : out[k] \notin {"audio", "torn"})
              => Picked(out) = out[i]
<1>1. out # <<>>
  OBVIOUS
<1>2. ASSUME i \in Inline(out), \A k \in Inline(out) : k <= i
      PROVE  Picked(out) = out[i]
  <2> DEFINE j == CHOOSE j \in Inline(out) : \A k \in Inline(out) : k <= j
  <2>1. j \in Inline(out) /\ i <= j /\ j <= i
    BY <1>2
  <2>2. Picked(out) = out[j]
    BY <1>1, <1>2 DEF Picked
  <2>3. i \in Nat /\ j \in Nat
    BY <2>1 DEF Inline
  <2> HIDE DEF j
  <2>4. i = j
    BY <2>1, <2>3
  <2> QED
    BY <2>2, <2>4
<1>3. out[i] = "audio" => Picked(out) \in {"audio", "torn"}
  BY PickedHeld
<1>4. ASSUME i = Len(out), Inline(out) = {} PROVE Picked(out) = out[i]
  BY <1>1, <1>4 DEF Picked
<1> QED
  BY <1>2, <1>3, <1>4 DEF Inline
=============================================================================
