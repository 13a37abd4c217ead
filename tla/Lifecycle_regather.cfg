SPECIFICATION Spec
CONSTANTS
  Callers = {h1}
  Backends = {b1, b2}
  MaxCycles = 1
  MaxCancels = 1
INVARIANT FinishedForgotten
