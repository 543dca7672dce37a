--------------------------- MODULE MCPersonalData ---------------------------
(* One customer, one payment.  Each operation meets the whole erasure, the  *)
(* publisher and both consumers; operations of a customer share no row that *)
(* another one overwrites, so each has a scenario of its own.               *)
EXTENDS PersonalData

EachOperation == {{}} \cup {{flow} : flow \in AllFlows}
ReceiptOnly == {{"receipt"}}
=============================================================================
