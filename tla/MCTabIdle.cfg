SPECIFICATION Spec
CONSTANTS
  Queries = {1}
  Exports = {2}
  MaxRows = 2
  Page = 1
  Limit = 1
  MaxIdle = 1
  KeepAlive = TRUE
  BrowserAuth = TRUE
INVARIANTS
  TabInv
  DrainIsWhole
  NotStuckBusy
  ExportKeepsSession
