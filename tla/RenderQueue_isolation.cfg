CONSTANTS
  MaxJobs = 2
  Renders = {r1, r2}
  NoRender = NoRender
  Paths = {}
  NoPath = NoPath
  Models = {moss, higgs}
  Moss = moss
  AuK = auk
  Handlers = {}
  MaxInFlight = 1
  MaxAttempts = 1
  PollLimit = 50
  MaxFaults = 0
  MaxStops = 0
SPECIFICATION MossServes
PROPERTIES MossUnaffected
