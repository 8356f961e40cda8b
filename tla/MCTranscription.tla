--------------------------- MODULE MCTranscription ---------------------------
EXTENDS Transcription

\* A table whose first clip has been deleted, and no job yet.
FirstClipGone ==
  /\ row = [v \in Voices |-> IF v = 1 THEN "deleted" ELSE "absent"]
  /\ trouble = {}
  /\ status = [j \in Jobs |-> "absent"] /\ engine = [j \in Jobs |-> "moss"]
  /\ voice = [j \in Jobs |-> 0] /\ asked = [j \in Jobs |-> 0]
  /\ error = [j \in Jobs |-> "none"]

\* A table whose first clip is pending, and whose jobs failed for its transcript.
FirstClipFailed ==
  /\ row = [v \in Voices |-> IF v = 1 THEN "pending" ELSE "absent"]
  /\ trouble = {1}
  /\ status = [j \in Jobs |-> "failed"] /\ engine = [j \in Jobs |-> "higgs"]
  /\ voice = [j \in Jobs |-> 1] /\ asked = [j \in Jobs |-> 1]
  /\ error = [j \in Jobs |-> "transcript"]

\* A process that has just been started again, on one table or the other: jobs
\* that meet two clips, or three clips that no job waits for.
StartedInit ==
  /\ FirstClipGone \/ FirstClipFailed
  /\ attempts = [v \in Voices |-> 0] /\ age = [v \in Voices |-> 0]
  /\ calls = [v \in Voices |-> {}]
  /\ tries = [j \in Jobs |-> 0] /\ sent = [j \in Jobs |-> "none"]
  /\ wpc = "idle" /\ wbatch = {} /\ wseen = [j \in Jobs |-> 0]
  /\ wjob = 0 /\ wvoice = 0 /\ wref = "plain"
  /\ proc = "up" /\ mishaps = 0

StartedSpec == StartedInit /\ [][Next]_vars /\ Fairness
=============================================================================
