SPECIFICATION Spec
CONSTANTS
  Models = {m1}
  MaxLoraAdapters = 2
  NativeSampling = FALSE
  Kinds <- Steps
  MaxRequests = 3
  MaxRestarts = 0
  BackendMayFail = FALSE
  CleanupEnabled = FALSE
INVARIANTS
  OptimAfterPasses
