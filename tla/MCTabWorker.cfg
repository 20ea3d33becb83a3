SPECIFICATION FairSpec
CONSTANTS
  Queries = {1, 2}
  Exports = {2}
  MaxRows = 2
  Page = 2
  Limit = 2
  MaxIdle = 0
  KeepAlive = FALSE
  BrowserAuth = FALSE
INVARIANTS
  CancelReachesServer
  OneResult
PROPERTIES
  CancelPreventsSubmission
  WorkerEnds
