SPECIFICATION FairSpec
CONSTANTS
  Callers = {c1, c2}
  MaxEntries = 2
  MaxFlights = 2
INVARIANTS
  AuthInv
  SharedSignIn
  SignedOutForgets
PROPERTIES
  WaitingEnds
CHECK_DEADLOCK FALSE
