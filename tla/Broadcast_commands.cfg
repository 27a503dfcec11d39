SPECIFICATION FairSpec
CONSTANTS
  Workers <- TwoWorkers
  Active <- TwoActive
  Models = {m1, m2, m3}
  MaxAdapters = 2
  MaxCommands = 3
  MaxFaults = 2
  None = None
INVARIANTS
  SuccessIsEverywhere
PROPERTIES
  CommandsEnd
CHECK_DEADLOCK FALSE
