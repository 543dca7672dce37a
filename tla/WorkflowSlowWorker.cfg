\* A participant that outlives the 30 second lease; no faults.
SPECIFICATION Spec
CONSTANTS
  w1 = w1
  w2 = w2
  Workers <- TwoWorkers
  NumSteps = 4
  MaxAttempts = 3
  MaxFaults = 0
  Verified <- AllStores
  NeedsContext <- SecondStore
  LateWritable <- NoStores
  PromptWorkers = FALSE
SYMMETRY Symmetry
INVARIANTS
  NoWorkAfterCompletion
CHECK_DEADLOCK FALSE
