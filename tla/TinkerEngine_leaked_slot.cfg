SPECIFICATION Spec
CONSTANTS
  Models = {m1}
  MaxLoraAdapters = 2
  NativeSampling = FALSE
  Kinds <- Reuse
  MaxRequests = 2
  MaxRestarts = 0
  BackendMayFail = FALSE
  CleanupEnabled = TRUE
INVARIANTS
  SlotsOfLiveSessions
