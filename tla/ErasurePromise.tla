--------------------------- MODULE ErasurePromise ---------------------------
(***************************************************************************)
(* What one erasure request promises about the customer's data, with no    *)
(* worker, checkpoint, lease or retry in sight:                            *)
(*                                                                         *)
(*   - a permanent suppression record comes first;                         *)
(*   - then each store that holds the customer is erased, in any order;    *)
(*   - only when every store is erased may the request be done, and after  *)
(*     that nothing touches the customer again.                            *)
(*                                                                         *)
(* docs/privacy-and-retention.md states these as the conditions under      *)
(* which a request may be reported complete.  ErasureWorkflow implements   *)
(* this specification.                                                     *)
(***************************************************************************)
CONSTANT Domains       \* the stores that hold the customer's data

VARIABLES suppressed,  \* the tombstone exists
          erased,      \* the stores already erased
          done         \* the request has been completed

vars == <<suppressed, erased, done>>

TypeOK ==
  /\ suppressed \in BOOLEAN
  /\ erased \in SUBSET Domains
  /\ done \in BOOLEAN

Init ==
  /\ suppressed = FALSE
  /\ erased = {}
  /\ done = FALSE

Suppress ==
  /\ ~suppressed
  /\ suppressed' = TRUE
  /\ UNCHANGED <<erased, done>>

Erase(d) ==
  /\ suppressed
  /\ ~done
  /\ erased' = erased \cup {d}
  /\ UNCHANGED <<suppressed, done>>

Finish ==
  /\ suppressed
  /\ erased = Domains
  /\ done' = TRUE
  /\ UNCHANGED <<suppressed, erased>>

Next ==
  \/ Suppress
  \/ \E d \in Domains : Erase(d)
  \/ Finish

Spec == Init /\ [][Next]_vars
=============================================================================
