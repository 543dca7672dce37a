\* Three calls, two customers, two keys, one fault.
SPECIFICATION Spec
CONSTANTS
  c1 = c1
  c2 = c2
  c3 = c3
  alice = alice
  bob = bob
  k1 = k1
  k2 = k2
  NoCall = NoCall
  Calls <- ThreeCalls
  Customers <- TwoCustomers
  Keys <- TwoKeys
  MaxAttempts = 2
  MaxFaults = 1
SYMMETRY Symmetry
INVARIANTS
  TypeOK
  AcceptedIsSaved
  OneRequestPerCustomer
  SavedIsNeverUnknown
  NoErrorWithinCustomer
  NoDeadlock
PROPERTIES
  CallsAreAtomic
CHECK_DEADLOCK FALSE
