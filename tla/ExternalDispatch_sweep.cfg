SPECIFICATION Spec
CONSTANTS
  Rows = {1, 2}
  Slots = {s1, s2}
  StaleAfter = 1
  InflightTimeout = 1
  MaxRedispatch = 1
  AbandonAfter = 0
  MaxRestarts = 0
  WritesMayFail = FALSE
  None = None
SYMMETRY SlotSymmetry
INVARIANTS
  OnlyRegisteredTasks
  HealthyNotCancelled
  RedispatchesBounded
