\* The event of a receipt written for an erased customer has the original id.
SPECIFICATION Spec
CONSTANTS
  Scenarios <- ReceiptOnly
  MaxAttempts = 2
CHECK_DEADLOCK FALSE
INVARIANT IdOnlyInTombstone
