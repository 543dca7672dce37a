-------------------------- MODULE AtomicErasureApi --------------------------
(***************************************************************************)
(* What POST /v1/customers/{customerId}/erasure-requests promises its      *)
(* callers, with no statement, transaction or lock in sight: each call     *)
(* takes place at one instant, as if it were alone with the requests and   *)
(* customers of that instant and with the worker that moves them.          *)
(*                                                                         *)
(*   - a customer that has a request is told that one, which is set going  *)
(*     again if it had failed with attempts left;                          *)
(*   - one that has none gets one, if the key is free, or is unknown;      *)
(*   - an error needs a reason: a key taken for another customer, or       *)
(*     trouble, which may also hide an answer from the caller.             *)
(***************************************************************************)
EXTENDS Naturals

CONSTANTS Calls, NoCall, Customers, Keys, MaxAttempts

VARIABLES
  asked,     \* the customer and the key of each call
  answer,    \* the code each call was answered, and the request it was told
  saved,     \* the status of each request that was saved, "none" of the others
  tries,     \* the attempts of the worker at each request
  known,     \* the customers that exist
  troubled   \* a statement has failed, or the service has died

vars == <<asked, answer, saved, tries, known, troubled>>

Unanswered == <<0, NoCall>>

Init ==
  /\ asked \in [Calls -> [customer : Customers, key : Keys]]
  /\ answer = [c \in Calls |-> Unanswered]
  /\ saved = [c \in Calls |-> "none"]
  /\ tries = [c \in Calls |-> 0]
  /\ known \in SUBSET Customers
  /\ troubled = FALSE

Requests == {r \in Calls : saved[r] # "none"}
OfCustomer(c) == {r \in Requests : asked[r].customer = asked[c].customer}
WithKey(c) == {r \in Requests : asked[r].key = asked[c].key}
Failed(r) == saved[r] = "failed" /\ tries[r] < MaxAttempts

Reply(c, code, r) ==
  /\ answer[c] = Unanswered
  /\ answer' = [answer EXCEPT ![c] = <<code, r>>]

(* What has been done may be reported as an error.                          *)
Accept(c, r) ==
  \/ Reply(c, 202, r) /\ UNCHANGED troubled
  \/ Reply(c, 500, NoCall) /\ troubled' = TRUE

Create(c) ==
  /\ OfCustomer(c) = {} /\ WithKey(c) = {}
  /\ asked[c].customer \in known
  /\ saved' = [saved EXCEPT ![c] = "pending"]
  /\ Accept(c, c)
  /\ UNCHANGED <<asked, tries, known>>

(* The key is not looked at: another customer may have taken it meanwhile.  *)
Repost(c, r) ==
  /\ r \in OfCustomer(c)
  /\ saved' = IF Failed(r) THEN [saved EXCEPT ![r] = "pending"] ELSE saved
  /\ Accept(c, r)
  /\ UNCHANGED <<asked, tries, known>>

Unknown(c) ==
  /\ OfCustomer(c) = {} /\ asked[c].customer \notin known
  /\ Reply(c, 404, NoCall)
  /\ UNCHANGED <<asked, saved, tries, known, troubled>>

KeyTaken(c) == WithKey(c) \ OfCustomer(c) # {}

Conflict(c) ==
  /\ KeyTaken(c)
  /\ Reply(c, 409, NoCall)
  /\ UNCHANGED <<asked, saved, tries, known, troubled>>

Break(c) ==
  /\ Reply(c, 500, NoCall)
  /\ troubled' \in {troubled, TRUE}
  /\ troubled' \/ KeyTaken(c)
  /\ UNCHANGED <<asked, saved, tries, known>>

Trouble == troubled' = TRUE /\ UNCHANGED <<asked, answer, saved, tries, known>>

(* The worker.                                                              *)
Claim(r) ==
  /\ saved[r] \in {"pending", "failed"} /\ tries[r] < MaxAttempts
  /\ saved' = [saved EXCEPT ![r] = "processing"]
  /\ tries' = [tries EXCEPT ![r] = @ + 1]
  /\ UNCHANGED <<asked, answer, known, troubled>>

Erase(r) ==
  /\ r \in Requests /\ tries[r] > 0
  /\ known' = known \ {asked[r].customer}
  /\ UNCHANGED <<asked, answer, saved, tries, troubled>>

Finish(r, status) ==
  /\ r \in Requests /\ tries[r] > 0
  /\ status = "completed" => asked[r].customer \notin known
  /\ saved' = [saved EXCEPT ![r] = status]
  /\ UNCHANGED <<asked, answer, tries, known, troubled>>

Next ==
  \/ \E c \in Calls : Create(c) \/ Unknown(c) \/ Conflict(c) \/ Break(c) \/ \E r \in Calls : Repost(c, r)
  \/ \E r \in Calls : Claim(r) \/ Erase(r) \/ \E status \in {"completed", "failed"} : Finish(r, status)
  \/ Trouble

Spec == Init /\ [][Next]_vars
=============================================================================
