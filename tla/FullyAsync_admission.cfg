SPECIFICATION Spec
CONSTANTS
  Workers = {w1, w2, w3}
  MiniBatchSize = 2
  MaxStalenessSteps = 1
  SampleFullBatch = TRUE
  DatasetLength = 7
  Epochs = 1
  MaxTrainingSteps <- NoLimit
  CkptInterval = 2
  MaxCkptsToKeep <- KeepAll
  MaxRestarts = 0
  None = None
SYMMETRY WorkerSymmetry
INVARIANTS
  AdmissionInv
  TypeOK
  InFlightBound
  EachPromptOnce
  StalenessNotUnderstated
