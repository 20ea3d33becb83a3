SPECIFICATION Spec
CONSTANTS
  Callers = {c1, c2}
  Subjects = {a, b}
  Nobody = Nobody
  SignInThread = SignInThread
  SignOutThread = SignOutThread
  MaxTokens = 3
  MaxEdits = 1
  MaxChanges = 2
  MaxCrashes = 1
SYMMETRY Symmetry
INVARIANTS
  TokenInv
  NewestIsKept
  SignedOutStaysOut
CHECK_DEADLOCK FALSE
