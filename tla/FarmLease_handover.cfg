SPECIFICATION FairSpec
CONSTANTS
  Acquires = {a1, a2}
  Calls = {c1}
  Gradings = {g1}
  Engines = {e1}
  MaxUploads = 2
  None = None
INVARIANTS
  WeightsFixed
PROPERTIES
  AcquireAnswered
  ImplementsOneTenant
CHECK_DEADLOCK FALSE
