\* As many senders as the pool has clients, no fault.
SPECIFICATION FairSpec
CONSTANTS
  e1 = e1
  e2 = e2
  s1 = s1
  s2 = s2
  Eraser = Eraser
  NoOne = NoOne
  Events <- TwoEvents
  Senders <- TwoSenders
  PoolSize = 2
  MaxAttempts = 2
  MaxFaults = 0
PROPERTIES
  SendersReturn
CHECK_DEADLOCK FALSE
