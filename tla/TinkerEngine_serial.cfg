SPECIFICATION Spec
CONSTANTS
  Models = {m1}
  MaxLoraAdapters = 2
  NativeSampling = FALSE
  Kinds <- Training
  MaxRequests = 4
  MaxRestarts = 1
  BackendMayFail = TRUE
  CleanupEnabled = TRUE
INVARIANTS
  TypeOK
  CommitOrder
  OwnGradients
  CheckpointsHoldFiles
PROPERTIES
  ImplementsSerialTraining
