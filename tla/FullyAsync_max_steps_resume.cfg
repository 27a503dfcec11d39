SPECIFICATION Spec
CONSTANTS
  Workers = {w1, w2}
  MiniBatchSize = 1
  MaxStalenessSteps = 1
  SampleFullBatch = FALSE
  DatasetLength = 3
  Epochs = 2
  MaxTrainingSteps <- OneStepThenNoLimit
  CkptInterval = 1
  MaxCkptsToKeep <- KeepAll
  MaxRestarts = 1
  None = None
SYMMETRY WorkerSymmetry
INVARIANT NoAssertionFails
