--------------------------- MODULE LedgerPromise ---------------------------
(***************************************************************************)
(* What the ledger promises of one payment to whoever reads it: it grows   *)
(* by one entry at a time and changes none, every entry is made once, and  *)
(* each follows what it is about.  The processor settles the payment, the  *)
(* capture is entered, the processor takes refunds of what was captured,   *)
(* and each refund it took may be entered.                                 *)
(***************************************************************************)
EXTENDS Naturals

CONSTANTS Refunds

VARIABLES
  settled,  \* what the processor has made of the payment, "open" till then
  taken,    \* the refunds it has taken
  ledger    \* how many times the postings of an entry are there

vars == <<settled, taken, ledger>>

Init ==
  /\ settled = "open"
  /\ taken = {}
  /\ ledger = [e \in {"capture"} \cup Refunds |-> 0]

Enter(e) ==
  /\ ledger[e] = 0
  /\ ledger' = [ledger EXCEPT ![e] = 1]

Settle ==
  /\ settled = "open"
  /\ settled' \in {"succeeded", "failed"}
  /\ UNCHANGED <<taken, ledger>>

Capture ==
  /\ settled = "succeeded"
  /\ Enter("capture")
  /\ UNCHANGED <<settled, taken>>

Take(r) ==
  /\ ledger["capture"] = 1 /\ r \notin taken
  /\ taken' = taken \cup {r}
  /\ UNCHANGED <<settled, ledger>>

GiveBack(r) ==
  /\ r \in taken
  /\ Enter(r)
  /\ UNCHANGED <<settled, taken>>

Next == Settle \/ Capture \/ \E r \in Refunds : Take(r) \/ GiveBack(r)

Spec == Init /\ [][Next]_vars
=============================================================================
