CONSTANTS
  MaxJobs = 2
  Renders = {r1, r2}
  NoRender = NoRender
  Paths = {}
  NoPath = NoPath
  Models = {moss}
  Moss = moss
  AuK = auk
  Handlers = {}
  MaxInFlight = 1
  MaxAttempts = 1
  PollLimit = 50
  MaxFaults = 1
  MaxStops = 1
SPECIFICATION FairSpec
PROPERTIES EveryJobDecided
