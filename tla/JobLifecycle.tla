---------------------------- MODULE JobLifecycle ----------------------------
(***************************************************************************)
(* What the render queue promises about a job, with no worker, poller,     *)
(* disk, network or crash in sight: a job waits, is at RunPod, and is then *)
(* decided once; at most MaxInFlight jobs are at RunPod as far as the      *)
(* database knows; a RunPod id names one job and is never replaced; its    *)
(* owner may remove the job at any time, and a removed job never returns.  *)
(***************************************************************************)
EXTENDS Naturals, FiniteSets

CONSTANTS Jobs,         \* job ids
          Renders,      \* RunPod's ids
          NoRender,     \* a NULL runpod_id
          MaxInFlight   \* the budget, TIMBRE_MAX_IN_FLIGHT

VARIABLES phase,    \* where each job is in its life
          remote    \* the RunPod id a job is bound to

lifecycleVars == <<phase, remote>>

Phases == {"absent", "waiting", "active", "ready", "failed", "removed"}

Active == {j \in Jobs : phase[j] = "active"}

Init ==
  /\ phase = [j \in Jobs |-> "absent"]
  /\ remote = [j \in Jobs |-> NoRender]

Move(j, from, to) ==
  /\ phase[j] \in from
  /\ phase' = [phase EXCEPT ![j] = to]

Arrive(j) == Move(j, {"absent"}, "waiting") /\ UNCHANGED remote

\* A job is bound to a RunPod id that no job was ever bound to.
Dispatch(j, r) ==
  /\ Cardinality(Active) < MaxInFlight
  /\ \A i \in Jobs : remote[i] # r
  /\ Move(j, {"waiting"}, "active")
  /\ remote' = [remote EXCEPT ![j] = r]

Finish(j) == Move(j, {"active"}, "ready") /\ UNCHANGED remote
Fail(j)   == Move(j, {"waiting", "active"}, "failed") /\ UNCHANGED remote
Remove(j) ==
  /\ Move(j, {"waiting", "active", "ready", "failed"}, "removed")
  /\ UNCHANGED remote

Next ==
  \E j \in Jobs :
    \/ Arrive(j)
    \/ \E r \in Renders : Dispatch(j, r)
    \/ Finish(j)
    \/ Fail(j)
    \/ Remove(j)

Spec == Init /\ [][Next]_lifecycleVars
=============================================================================
