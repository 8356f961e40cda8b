CONSTANTS
  MaxJobs = 1
  Renders = {r1, r2, r3, r4}
  NoRender = NoRender
  Paths = {p1}
  NoPath = NoPath
  Models = {moss}
  Moss = moss
  AuK = auk
  Handlers = {h1, h2}
  MaxInFlight = 1
  MaxAttempts = 2
  PollLimit = 50
  MaxFaults = 1
  MaxStops = 1
SYMMETRY Symmetric
SPECIFICATION Spec
INVARIANTS CostBounded QueuedIsBuildable InputsOwned
