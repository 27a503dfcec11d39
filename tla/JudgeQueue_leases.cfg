SPECIFICATION FairSpec
CONSTANTS
  Works = {1, 2}
  Judges = {j1, j2}
  LeaseTime = 2
  CompileBudget = TRUE
  MaxRestarts = 1
  MaxFaults = 1
  None = None
INVARIANTS
  QueuedOnce
  OwnVerdict
PROPERTIES
  VerdictsStand
  ImplementsGradedOnce
