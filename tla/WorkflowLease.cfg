\* Prompt workers: the lease makes one worker the owner; three faults, one attempt more, late writes into
\* a store that verification does not read; no symmetry, which liveness excludes.
SPECIFICATION FairSpec
CONSTANTS
  w1 = w1
  w2 = w2
  Workers <- TwoWorkers
  NumSteps = 4
  MaxAttempts = 4
  MaxFaults = 3
  Verified <- FirstStore
  NeedsContext <- SecondStore
  LateWritable <- SecondStore
  PromptWorkers = TRUE
INVARIANTS
  SingleOwner
  IdleUnlessProcessing
  NoWorkAfterCompletion
  CompletionIsFinal
PROPERTIES
  CompletedUnlessLoopsEnd
CHECK_DEADLOCK FALSE
