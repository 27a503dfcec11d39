SPECIFICATION Spec
CONSTANTS
  Works = {1, 2}
  Judges = {j1}
  LeaseTime = 1
  CompileBudget = TRUE
  MaxRestarts = 0
  MaxFaults = 0
  None = None
INVARIANT
  TerminalVerdictIsOwn
