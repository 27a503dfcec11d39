SPECIFICATION Spec
CONSTANTS
  Workers <- TwoWorkers
  Active <- TwoActive
  Models = {m1, m2, m3}
  MaxAdapters = 2
  MaxCommands = 3
  MaxFaults = 1
  None = None
INVARIANTS
  WorkersStay
CHECK_DEADLOCK FALSE
