CONSTANTS
  MaxJobs = 2
  Renders = {r1, r2}
  NoRender = NoRender
  Paths = {}
  NoPath = NoPath
  Models = {moss}
  Moss = moss
  AuK = auk
  Handlers = {h1}
  MaxInFlight = 1
  MaxAttempts = 1
  PollLimit = 1
  MaxFaults = 1
  MaxStops = 1
SYMMETRY Symmetric
SPECIFICATION Spec
INVARIANTS TypeOK ReadyIsPlayable BudgetRespected
PROPERTIES VerdictIsFinal WorkerSparesInFlight PollerSeesAll ImplementsLifecycle
