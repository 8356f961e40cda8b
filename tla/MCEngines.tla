----------------------------- MODULE MCEngines ------------------------------
(* Instances of Engines for TLC.  The classes of each engine's own fields    *)
(* are combined; the fields of the others are blank, or all filled in at     *)
(* once, as the studio posts controls it only hides.                         *)
EXTENDS Engines

Filled ==
  [NoForm EXCEPT !.text = TRUE, !.mode = "clone", !.instruct = TRUE, !.cfg = "range",
                 !.tuning = "set", !.seed = "set", !.task = "auto", !.promptText = TRUE,
                 !.gen = "set", !.variant = "base", !.nfe = "base"]
Empty == [NoForm EXCEPT !.text = TRUE]

Common(f) ==
  {[f EXCEPT !.tuning = t, !.seed = s] : t \in {"", "set", "nan", "bad"}, s \in {"", "set"}}

PlainForms ==
  {[g EXCEPT !.model = m, !.voice = v] :
     g \in Common(Filled) \cup Common(Empty) \cup {[Filled EXCEPT !.text = FALSE]},
     m \in {"", "higgs", "unknown"}, v \in {"", "stock", "clone", "longclip", "gone"}}

BreezeForms ==
  {[g EXCEPT !.model = "breeze", !.voice = v, !.mode = m, !.instruct = i, !.cfg = c] :
     g \in {Filled, Empty}, v \in {"", "stock", "clone", "longclip", "gone"},
     m \in {"", "clone", "design", "direction", "junk"}, i \in BOOLEAN,
     c \in {"", "zero", "far", "nan", "junk"}}

AuKForms ==
  {[g EXCEPT !.model = "auk", !.voice = v, !.task = t, !.promptText = p, !.audio = a,
             !.gen = d, !.variant = k[1], !.nfe = k[2], !.cfg = k[3]] :
     g \in {Filled, Empty}, v \in {"", "stock", "clone", "gone"},
     t \in {"", "auto", "zero_shot_tts", "instruct_tts", "edit", "junk"}, p \in BOOLEAN,
     a \in {"", "upload", "both"}, d \in {"", "set", "nan", "bad"},
     k \in {<<"", "", "">>, <<"flash", "flash", "nan">>, <<"flash", "base", "range">>,
            <<"base", "", "">>, <<"base", "base", "nan">>, <<"base", "zero", "far">>,
            <<"base", "base", "range">>, <<"junk", "", "">>}}

MCForms == PlainForms \cup BreezeForms \cup AuKForms

MCAnswers ==
  {[status |-> se[1], error |-> se[2], output |-> o] :
     se \in {<<"COMPLETED", "none">>} \cup ({"FAILED"} \X {"none", "text", "envelope"}),
     o \in {<<>>, <<"blank">>, <<"audio">>, <<"torn">>, <<"url">>, <<"envelope">>,
            <<"audio", "blank">>, <<"blank", "audio">>, <<"url", "blank">>,
            <<"audio", "torn">>, <<"audio", "url", "blank">>}}

AllOrMOSS == {Engine, {"moss"}}
=============================================================================
