SPECIFICATION FairSpec
CONSTANTS
  Members = {m1, m2}
  Nobody = nobody
  MemberSets = {{m1, m2}, {m1}}
  Schemas = {"s"}
  Scopes <- MCScopes
  MaxCalls = 3
CHECK_DEADLOCK FALSE
INVARIANTS
  CatalogInv
  NoLeftoverFlag
  CancelReachesRequest
PROPERTIES
  FlagStays
  OnlyOwnStops
  RefreshEnds
  ShutdownEnds
