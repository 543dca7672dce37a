\* Two refunds that overlap exceed the captured amount without any fault.
SPECIFICATION Spec
CONSTANTS
  first = first
  second = second
  r1 = r1
  r2 = r2
  Calls = {first, second}
  Refunds = {r1, r2}
  Cases <- Overlapping
  Amount = 2
  MaxTries = 1
  MaxFaults = 0
CHECK_DEADLOCK FALSE
INVARIANT RefundsWithinCapture
