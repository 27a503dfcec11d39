SPECIFICATION Spec
CONSTANTS
  Workers = {w1, w2}
  MiniBatchSize = 1
  MaxStalenessSteps = 1
  SampleFullBatch = FALSE
  DatasetLength = 2
  Epochs = 1
  MaxTrainingSteps <- NoLimit
  CkptInterval = 1
  MaxCkptsToKeep <- KeepAll
  MaxRestarts = 1
  None = None
SYMMETRY WorkerSymmetry
INVARIANT LatestIsLoadable
