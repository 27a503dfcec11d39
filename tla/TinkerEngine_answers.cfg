SPECIFICATION FairSpec
CONSTANTS
  Models = {m1}
  MaxLoraAdapters = 2
  NativeSampling = TRUE
  Kinds <- Evaluation
  MaxRequests = 4
  MaxRestarts = 1
  BackendMayFail = TRUE
  CleanupEnabled = FALSE
PROPERTIES
  EveryRequestAnswered
