--------------------------- MODULE MCVoiceLibrary ---------------------------
(* Instances of VoiceLibrary for TLC.  Users, paths and requests are        *)
(* interchangeable; ids of voices and jobs are ordered.                     *)
EXTENDS VoiceLibrary, TLC

Symmetric == Permutations(Users) \cup Permutations(Paths) \cup Permutations(Handlers)
=============================================================================
