SPECIFICATION FairSpec
CONSTANTS
  Callers = {c1, c2}
  Runner = runner
INVARIANTS
  DownloadInv
  NoStrayAbort
  CancelFinishedBeforeReuse
  AbortedSessionDiscarded
PROPERTIES
  Resolves
