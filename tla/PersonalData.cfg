\* Every operation against the erasure, the publisher and the consumers.
SPECIFICATION Spec
CONSTANTS
  Scenarios <- EachOperation
  MaxAttempts = 2
CHECK_DEADLOCK FALSE
INVARIANTS
  TypeOK
  CompletedMeansClean
  AddressNeverWithoutId
  BlockedByLateRowsOnly
PROPERTY NoMailOnceSuppressed
