\* A payment asked for twice, its webhooks and two refunds, with any two faults.
SPECIFICATION FairSpec
CONSTANTS
  first = first
  second = second
  r1 = r1
  r2 = r2
  Calls = {first, second}
  Refunds = {r1, r2}
  Cases <- TestTokens
  Amount = 2
  MaxTries = 2
  MaxFaults = 2
CHECK_DEADLOCK FALSE
INVARIANTS
  TypeOK
  StatusTellsLedger
  OnlyOverlapsExceed
  SecondReceiptExplained
  AnswersAgree
PROPERTIES
  EverythingSettles
  LedgerIsRecord
