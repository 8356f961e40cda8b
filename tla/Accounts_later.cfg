CONSTANTS
  MaxUsers = 3
  MaxRequests = 0
  Names = {root, ann, bob}
  Root = root
  Configured = TRUE
  Handlers = {h1}
  Paths = {}
  Operations = {"enable", "promote", "delete"}
  MaxRestarts = 1
SPECIFICATION Spec
PROPERTIES LaterAccountsKeepRole
