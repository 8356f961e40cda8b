--------------------------- MODULE MCRenderQueue ----------------------------
(* Instances of RenderQueue for TLC: RunPod's ids, input names and requests *)
(* are interchangeable; job ids are ordered and are not.                    *)
EXTENDS RenderQueue, TLC

CONSTANT Moss   \* the MOSS engine, one of Models

Symmetric ==
  Permutations(Renders) \cup Permutations(Paths) \cup Permutations(Handlers)

\* The process boots on a backlog: every row was created before and is queued.
BacklogInit ==
  /\ \E model0 \in [Jobs -> Models] : model = model0
  /\ status = [j \in Jobs |-> "queued"]
  /\ runpodID = [j \in Jobs |-> NoRender] /\ attempts = [j \in Jobs |-> 0]
  /\ inputOf = [j \in Jobs |-> NoPath]
  /\ audio = [j \in Jobs |-> None] /\ inputs = {}
  /\ render = [r \in Renders |-> "free"] /\ renderOf = [r \in Renders |-> 0]
  /\ wpc = "idle" /\ wcap = 0 /\ wbatch = {} /\ wseen = [j \in Jobs |-> 0]
  /\ wjob = 0 /\ wsub = NoRender
  /\ ppc = "idle" /\ pbatch = {} /\ pjob = 0
  /\ pseen = [j \in Jobs |-> NoRender]
  /\ hpc = [h \in Handlers |-> "idle"] /\ hjob = [h \in Handlers |-> 0]
  /\ hpath = [h \in Handlers |-> NoPath] /\ haudio = [h \in Handlers |-> FALSE]
  /\ proc = "up" /\ faults = 0 /\ stops = 0

BacklogSpec == BacklogInit /\ [][Next]_vars

\* Every engine serves.
FairSpec == BacklogSpec /\ Fairness(Models)

\* Only MOSS serves.
MossServes == BacklogSpec /\ Fairness({Moss})
MossUnaffected == Unaffected({Moss})
=============================================================================
