SPECIFICATION Spec
CONSTANTS
  Acquires = {a1, a2}
  Calls = {c1, c2}
  Gradings = {g1}
  Engines = {e1}
  MaxUploads = 1
  None = None
INVARIANTS
  GradingFenced
CHECK_DEADLOCK FALSE
