SPECIFICATION Spec
CONSTANTS
  Queries = {1, 2, 3}
  Exports = {}
  MaxRows = 1
  Page = 1
  Limit = 1
  MaxIdle = 1
  KeepAlive = FALSE
  BrowserAuth = FALSE
INVARIANTS
  OneQuery
