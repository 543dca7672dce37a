\* No faults; a late write lands after its participant was checkpointed.
SPECIFICATION RepostingSpec
CONSTANTS
  w1 = w1
  w2 = w2
  Workers <- OneWorker
  NumSteps = 4
  MaxAttempts = 3
  MaxFaults = 0
  Verified <- AllStores
  NeedsContext <- SecondStore
  LateWritable <- SecondStore
  PromptWorkers = TRUE
PROPERTIES
  FailureIsFinished
CHECK_DEADLOCK FALSE
