SPECIFICATION Spec
CONSTANTS
  Workers = {w1, w2}
  MiniBatchSize = 2
  MaxStalenessSteps = 1
  SampleFullBatch = FALSE
  DatasetLength = 6
  Epochs = 2
  MaxTrainingSteps <- FiveStepsAtLast
  CkptInterval = 2
  MaxCkptsToKeep = 2
  MaxRestarts = 2
  None = None
SYMMETRY WorkerSymmetry
INVARIANTS
  NoAssertionFails
  TrainedOnce
  EpochsCovered
  TypeOK
  AdmissionInv
  InFlightBound
  EachPromptOnce
  StalenessNotUnderstated
PROPERTIES
  LatestOnlyGrows
  ImplementsEpochTraining
