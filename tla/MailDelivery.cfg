\* Two events, two senders, a pool client to spare, one fault; no symmetry, which liveness excludes.
SPECIFICATION FairSpec
CONSTANTS
  e1 = e1
  e2 = e2
  s1 = s1
  s2 = s2
  Eraser = Eraser
  NoOne = NoOne
  Events <- TwoEvents
  Senders <- TwoSenders
  PoolSize = 3
  MaxAttempts = 2
  MaxFaults = 1
INVARIANTS
  TypeOK
  MailboxErased
  KnownMailErased
PROPERTIES
  NoMailAfterSuppression
  LateDeliveriesRedacted
  SendersReturn
CHECK_DEADLOCK FALSE
