SPECIFICATION Spec
CONSTANTS
  Models = {m1}
  MaxLoraAdapters = 2
  NativeSampling = TRUE
  Kinds <- Sampling
  MaxRequests = 6
  MaxRestarts = 0
  BackendMayFail = FALSE
  CleanupEnabled = FALSE
INVARIANTS
  SampledFromCheckpoint
