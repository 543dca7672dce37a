\* Two rows of each table in turn, two workers, with any four faults.
SPECIFICATION FairSpec
CONSTANTS
  Kinds <- Tables
  Rows = {r1, r2}
  Workers = {w1, w2}
  Nobody = Nobody
  MaxTries = 2
  MaxFaults = 4
CHECK_DEADLOCK FALSE
INVARIANTS
  TypeOK
  DuplicatesCostFaults
  DeadLettersTellTruth
PROPERTIES
  KeepsPromise
  EveryRowEnds
