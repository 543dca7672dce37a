\* Two workers whose participants may outlive the lease, any two faults.
SPECIFICATION Spec
CONSTANTS
  w1 = w1
  w2 = w2
  Workers <- TwoWorkers
  NumSteps = 4
  MaxAttempts = 3
  MaxFaults = 2
  Verified <- FirstStore
  NeedsContext <- SecondStore
  LateWritable <- NoStores
  PromptWorkers = FALSE
SYMMETRY Symmetry
INVARIANTS
  TypeOK
  SuppressionFirst
  CheckpointsHold
  CompletedMeansErased
PROPERTIES
  ImplementsPromise
CHECK_DEADLOCK FALSE
