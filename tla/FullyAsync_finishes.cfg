SPECIFICATION FairSpec
CONSTANTS
  Workers = {w1, w2}
  MiniBatchSize = 2
  MaxStalenessSteps = 0
  SampleFullBatch = TRUE
  DatasetLength = 6
  Epochs = 2
  MaxTrainingSteps <- NoLimit
  CkptInterval = 0
  MaxCkptsToKeep <- KeepAll
  MaxRestarts = 0
  None = None
INVARIANTS
  StepCountsTraining
  SubmittedBalanced
  SynchronousWhenZero
PROPERTIES
  TrainingFinishes
  ImplementsEpochTraining
CHECK_DEADLOCK FALSE
