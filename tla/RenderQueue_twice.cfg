CONSTANTS
  MaxJobs = 1
  Renders = {r1, r2}
  NoRender = NoRender
  Paths = {}
  NoPath = NoPath
  Models = {moss}
  Moss = moss
  AuK = auk
  Handlers = {}
  MaxInFlight = 1
  MaxAttempts = 2
  PollLimit = 50
  MaxFaults = 0
  MaxStops = 0
SYMMETRY Symmetric
SPECIFICATION BacklogSpec
INVARIANTS SubmittedOnce
