SPECIFICATION Spec
CONSTANTS
  Callers = {c1}
  Runner = runner
INVARIANTS
  InterruptedSessionDiscarded
