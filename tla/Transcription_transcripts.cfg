CONSTANTS
  MaxVoices = 3
  MaxJobs = 1
  Speech = {3}
  Engines = {"higgs", "breeze"}
  ScanLimit = 20
  MaxAttempts = 3
  Backoff1 = 1
  Backoff2 = 2
  Timeout = 3
  Expiry = 6
  Interval = 1
  Delays = {1, 3}
  MaxTries = 2
  MaxMishaps = 1
SPECIFICATION StartedSpec
INVARIANTS TypeOK RateBounded FailedForCause ClipIsPaired
PROPERTIES EveryClipHeard
