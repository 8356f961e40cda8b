CONSTANTS
  MaxUsers = 2
  MaxRequests = 1
  Names = {root, ann}
  Root = root
  Configured = TRUE
  Handlers = {h1, h2}
  Paths = {}
  Operations = {"enable", "disable", "promote", "demote", "delete"}
  MaxRestarts = 1
SYMMETRY Symmetric
SPECIFICATION Spec
INVARIANTS TypeOK AdministratorLeft ActsEntitled
PROPERTIES ImplementsMembership
