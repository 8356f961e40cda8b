CONSTANTS
  MaxVoices = 3
  MaxJobs = 1
  Users = {u1, u2}
  NoUser = NoUser
  Paths = {p1}
  NoPath = NoPath
  Handlers = {h1, h2}
  Operations = {"upload", "delete", "share", "job"}
  MaxRestarts = 1
SYMMETRY Symmetric
SPECIFICATION Spec
PROPERTIES CloneIsHeard
