CONSTANTS
  MaxUsers = 3
  MaxRequests = 1
  Names = {root, ann}
  Root = root
  Configured = TRUE
  Handlers = {h1, h2}
  Paths = {p1}
  Operations = {"accept", "deny", "forget", "delete", "job"}
  MaxRestarts = 0
SYMMETRY Symmetric
SPECIFICATION ManagedSpec
INVARIANTS OneAccountPerApplication NothingLeftBehind
PROPERTIES DecisionIsFinal FollowsMembership
