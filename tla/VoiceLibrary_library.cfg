CONSTANTS
  MaxVoices = 2
  MaxJobs = 0
  Users = {u1, u2}
  NoUser = NoUser
  Paths = {p1}
  NoPath = NoPath
  Handlers = {h1, h2}
  Operations = {"upload", "assign", "unassign", "delete", "purge", "clear"}
  MaxRestarts = 1
SYMMETRY Symmetric
SPECIFICATION Spec
INVARIANTS TypeOK CloneHasFile NoOrphanFile
PROPERTIES AccessIsGranted ImplementsSharing DeletedByEntitled
