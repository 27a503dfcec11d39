SPECIFICATION Spec
CONSTANTS
  Models = {m1, m2}
  MaxLoraAdapters = 2
  NativeSampling = FALSE
  Kinds <- Reuse
  MaxRequests = 4
  MaxRestarts = 0
  BackendMayFail = FALSE
  CleanupEnabled = FALSE
INVARIANTS
  OwnGradients
