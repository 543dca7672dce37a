-------------------------- MODULE PaymentLifecycle --------------------------
(***************************************************************************)
(* One payment of payment-service: the calls that create it under one      *)
(* idempotency key, the processor, its webhooks as webhook-worker applies  *)
(* them, the refunds, and the ledger.                                      *)
(*                                                                         *)
(* create and refund are requests of three and four separate statements or *)
(* transactions with a call of the processor in between; a webhook may be  *)
(* applied between any two of them.  Whatever commits and is not heard of  *)
(* is a fault, as is an answer of the processor that is lost.  What of the *)
(* customer the rows hold is in PersonalData.                              *)
(***************************************************************************)
EXTENDS Naturals, FiniteSets, FiniteSetsExt

CONSTANTS
  Calls,       \* requests to create a payment with the same Idempotency-Key
  Refunds,     \* requests to refund it
  Amount,      \* payment_intents.amount
  Cases,       \* what the test token makes of the payment (outcome and mode), the
               \* hashes of the bodies of the calls, the amounts of the refunds
  MaxTries,    \* attempts after which webhook-worker gives an event up
  MaxFaults    \* bound: faults in a behaviour

ASSUME CasesAssumption ==
  /\ Amount \in Nat \ {0}
  /\ Cases \subseteq [outcome : {"succeeded", "failed", "timeout"}, mode : {"standard", "stale"},
                       hash : [Calls -> {1, 2}], size : [Refunds -> 1 .. Amount]]

ASSUME RefundsAssumption == IsFiniteSet(Refunds)

ASSUME BoundsAssumption == MaxTries \in Nat \ {0} /\ MaxFaults \in Nat

ASSUME NamesAssumption ==
  /\ Calls \cap Refunds = {}
  /\ "capture" \notin Refunds /\ "settled" \notin Refunds /\ "stale" \notin Refunds

VARIABLES
  outcome,    \* what the processor makes of the payment
  mode,       \* whether an obsolete event follows
  hash,       \* hash[c]: the hash of the body of call c
  size,       \* size[r]: the amount of refund r
  key,        \* operations.idempotency_keys.response_status
  keyHash,    \* its request_hash
  status,     \* payment_intents.status
  linked,     \* payment_intents.provider_payment_id is set
  attempt,    \* payment_attempts.status
  provider,   \* the status of the payment in the processor
  accepted,   \* refunds that the processor has accepted
  forgot,     \* the processor, which runs in payment-service, has been restarted
  refund,     \* refunds.status
  hook,       \* provider_webhooks.status, per event of the processor
  tries,      \* provider_webhooks.attempts
  posted,     \* how many times the postings of a journal entry are in the ledger
  receipts,   \* receipt jobs
  pc,         \* where a request is: a call of create or of refund
  answer,     \* what a call of create was answered
  known,      \* refunds whose request read a provider_payment_id
  before,     \* history: refunds whose rows were there when r summed them up
  faults,     \* faults so far
  lost        \* history: something went under that nothing repeats

tables == <<key, keyHash, status, linked, attempt, refund, posted, receipts>>
processor == <<provider, accepted, forgot>>
hooks == <<hook, tries>>
requests == <<pc, answer, known, before>>
choice == <<outcome, mode, hash, size>>
vars == <<choice, tables, processor, hooks, requests, faults, lost>>

Hooks == {"settled", "stale"} \cup Refunds
Entries == {"capture"} \cup Refunds
Refundable == {"succeeded", "partially_refunded"}
SumOf(S) == MapThenSumSet(LAMBDA r : size[r], S)

TypeOK ==
  /\ [outcome |-> outcome, mode |-> mode, hash |-> hash, size |-> size] \in Cases
  /\ key \in {"free", "reserved", "202", "502"}
  /\ keyHash \in {0, 1, 2}
  /\ status \in {"none", "processing", "failed", "refunded"} \cup Refundable
  /\ linked \in BOOLEAN
  /\ attempt \in {"none", "pending", "submitted", "succeeded", "failed"}
  /\ provider \in {"none", "processing", "succeeded", "failed"}
  /\ accepted \in SUBSET Refunds
  /\ forgot \in BOOLEAN
  /\ refund \in [Refunds -> {"none", "pending", "succeeded", "failed"}]
  /\ hook \in [Hooks -> {"absent", "lost", "pending", "processing", "retry", "processed",
                         "dead", "abandoned"}]
  /\ tries \in [Hooks -> 0 .. MaxTries]
  /\ posted \in [Entries -> Nat]
  /\ receipts \in Nat
  /\ pc \in [Calls \cup Refunds -> {"start", "prepared", "accepted", "refused", "read",
                                    "summed", "inserted", "done"}]
  /\ answer \in [Calls -> {"none", "202", "409", "500", "502"}]
  /\ known \in SUBSET Refunds
  /\ before \in [Refunds -> SUBSET Refunds]
  /\ faults \in 0 .. MaxFaults
  /\ lost \in BOOLEAN

Init ==
  /\ \E case \in Cases : /\ outcome = case.outcome /\ mode = case.mode
                          /\ hash = case.hash /\ size = case.size
  /\ key = "free" /\ keyHash = 0
  /\ status = "none" /\ linked = FALSE /\ attempt = "none"
  /\ provider = "none" /\ accepted = {} /\ forgot = FALSE
  /\ refund = [r \in Refunds |-> "none"]
  /\ hook = [h \in Hooks |-> "absent"]
  /\ tries = [h \in Hooks |-> 0]
  /\ posted = [e \in Entries |-> 0]
  /\ receipts = 0
  /\ pc = [q \in Calls \cup Refunds |-> "start"]
  /\ answer = [c \in Calls |-> "none"]
  /\ known = {}
  /\ before = [r \in Refunds |-> {}]
  /\ faults = 0 /\ lost = FALSE

Goto(q, next) == pc' = [pc EXCEPT ![q] = next]
Answer(c, with) == Goto(c, "done") /\ answer' = [answer EXCEPT ![c] = with]
NoFault == UNCHANGED <<faults, lost>>
Fault == faults < MaxFaults /\ faults' = faults + 1 /\ UNCHANGED lost
FatalFault == faults < MaxFaults /\ faults' = faults + 1 /\ lost' = TRUE

-----------------------------------------------------------------------------
(* create.                                                                  *)

ReplayAny(c) ==  \* mutant: a repeated call is answered at once, whatever it asks for
  key # "free"

(* reserveIdempotency finds a row with an answer for the same request.      *)
Replay(c) == key \notin {"free", "reserved"} /\ keyHash = hash[c]

(* The first transaction: the key, the payment and the attempt.             *)
Prepare(c) ==
  /\ pc[c] = "start" /\ key = "free"
  /\ key' = "reserved" /\ keyHash' = hash[c]
  /\ status' = "processing" /\ attempt' = "pending"
  /\ \/ Goto(c, "prepared") /\ UNCHANGED answer /\ NoFault
     \/ Answer(c, "500") /\ FatalFault
  /\ UNCHANGED <<choice, linked, refund, posted, receipts, processor, hooks, known, before>>

Repeat(c) ==
  /\ pc[c] = "start" /\ key # "free"
  /\ Answer(c, IF Replay(c) THEN key ELSE "409")
  /\ UNCHANGED <<choice, tables, processor, hooks, known, before, faults, lost>>

(* The processor takes the payment, answers 504 for a timeout token, is not *)
(* reached, or its answer is lost.                                          *)
CallProcessor(c) ==
  /\ pc[c] = "prepared"
  /\ \/ /\ provider' = "processing"
        /\ Goto(c, IF outcome = "timeout" THEN "refused" ELSE "accepted") /\ NoFault
     \/ provider' \in {provider, "processing"} /\ Goto(c, "refused") /\ Fault
  /\ UNCHANGED <<choice, tables, accepted, forgot, hooks, answer, known, before>>

(* The second transaction; when it fails or its reply is lost, the catch    *)
(* of create takes over.                                                    *)
Submit(c) ==
  /\ pc[c] = "accepted"
  /\ \/ /\ linked' = TRUE /\ attempt' = "submitted" /\ key' = "202"
        /\ \/ Answer(c, "202") /\ NoFault
           \/ Goto(c, "refused") /\ UNCHANGED answer /\ Fault
     \/ UNCHANGED <<linked, attempt, key, answer>> /\ Goto(c, "refused") /\ Fault
  /\ UNCHANGED <<choice, keyHash, status, refund, posted, receipts, processor, hooks, known, before>>

(* The catch marks the payment failed, whatever it has become.              *)
FailPayment(c) ==
  /\ pc[c] = "refused"
  /\ \/ /\ status' = "failed" /\ attempt' = "failed" /\ key' = "502"
        /\ \/ Answer(c, "502") /\ NoFault
           \/ Answer(c, "500") /\ Fault
     \/ UNCHANGED <<status, attempt, key>> /\ Answer(c, "500") /\ FatalFault
  /\ UNCHANGED <<choice, keyHash, linked, refund, posted, receipts, processor, hooks, known, before>>

-----------------------------------------------------------------------------
(* The processor settles the payment and tells PayFlow once: an event whose *)
(* delivery fails is not sent again.  A second delivery of the same event   *)
(* finds its row and changes nothing.                                       *)

Settle ==
  /\ provider = "processing" /\ ~forgot
  /\ provider' = IF outcome = "failed" THEN "failed" ELSE "succeeded"
  /\ UNCHANGED <<choice, tables, accepted, forgot, hooks, requests, faults, lost>>

Sent(h) ==
  /\ ~forgot
  /\ \/ h = "settled" /\ provider \in {"succeeded", "failed"}
     \/ h = "stale" /\ mode = "stale" /\ hook["settled"] # "absent"
     \/ h \in accepted

Deliver(h) ==
  /\ Sent(h) /\ hook[h] = "absent"
  /\ \/ hook' = [hook EXCEPT ![h] = "pending"] /\ NoFault
     \/ hook' = [hook EXCEPT ![h] = "lost"] /\ FatalFault
  /\ UNCHANGED <<choice, tables, processor, tries, requests>>

-----------------------------------------------------------------------------
(* webhook-worker.                                                          *)

ClaimPendingOnly(h) ==  \* mutant: what failed is not tried again
  hook[h] = "pending"

Claimable(h) == hook[h] \in {"pending", "retry"}

Claim(h) ==
  /\ Claimable(h)
  /\ hook' = [hook EXCEPT ![h] = "processing"]
  /\ tries' = [tries EXCEPT ![h] = @ + 1]
  /\ UNCHANGED <<choice, tables, processor, requests, faults, lost>>

(* postJournal: the entry is found by its reference, and keeps its postings.*)
Post(e) == posted' = [posted EXCEPT ![e] = IF @ = 0 THEN 1 ELSE @]

AlreadySucceededNever == FALSE  \* mutant: a payment is captured however often it is told

AlreadySucceeded == status = "succeeded"

PaymentSucceeded ==
  IF AlreadySucceeded
  THEN UNCHANGED <<status, attempt, posted, receipts>>
  ELSE /\ status' = "succeeded"
       /\ attempt' = IF attempt = "submitted" THEN "succeeded" ELSE attempt
       /\ Post("capture")
       /\ receipts' = receipts + 1

PaymentFailed ==
  /\ IF status = "processing"
     THEN status' = "failed" /\ attempt' = "failed"
     ELSE UNCHANGED <<status, attempt>>
  /\ UNCHANGED <<posted, receipts>>

ProcessingAnew ==  \* mutant: an obsolete event takes the payment back
  status' = "processing" /\ UNCHANGED <<attempt, posted, receipts>>

PaymentProcessing == UNCHANGED <<status, attempt, posted, receipts>>

RefundSucceeded(r) ==
  IF refund[r] # "pending"
  THEN UNCHANGED <<refund, status, attempt, posted, receipts>>
  ELSE /\ refund' = [refund EXCEPT ![r] = "succeeded"]
       /\ status' = IF SumOf({q \in Refunds : refund'[q] = "succeeded"}) = Amount
                    THEN "refunded" ELSE "partially_refunded"
       /\ Post(r)
       /\ UNCHANGED <<attempt, receipts>>

Apply(h) ==
  CASE h = "settled" -> /\ IF provider = "succeeded" THEN PaymentSucceeded ELSE PaymentFailed
                        /\ UNCHANGED refund
    [] h = "stale" -> PaymentProcessing /\ UNCHANGED refund
    [] OTHER -> RefundSucceeded(h)

GiveBackForever(h) ==  \* mutant: an event is never given up
  hook' = [hook EXCEPT ![h] = "retry"] /\ Fault

(* What the worker makes of an event that failed, or that it believes to.   *)
GiveBack(h) ==
  IF tries[h] < MaxTries
  THEN hook' = [hook EXCEPT ![h] = "retry"] /\ Fault
  ELSE hook' = [hook EXCEPT ![h] = "dead"] /\ FatalFault

(* One transaction per event, which also marks it processed.  Its reply may *)
(* be lost: then the worker turns the processed event back.                 *)
Process(h) ==
  /\ hook[h] = "processing"
  /\ Apply(h)
  /\ \/ hook' = [hook EXCEPT ![h] = "processed"] /\ NoFault
     \/ GiveBack(h)
  /\ UNCHANGED <<choice, key, keyHash, linked, processor, tries, requests>>

ProcessFails(h) ==
  /\ hook[h] = "processing"
  /\ GiveBack(h)
  /\ UNCHANGED <<choice, tables, processor, tries, requests>>

(* The worker dies: the row stays processing, and nothing claims it.        *)
WorkerDies(h) ==
  /\ hook[h] = "processing"
  /\ hook' = [hook EXCEPT ![h] = "abandoned"]
  /\ FatalFault
  /\ UNCHANGED <<choice, tables, processor, tries, requests>>

-----------------------------------------------------------------------------
(* refund.                                                                  *)

ReadUncaptured(r) ==  \* mutant: a payment that is processing may be refunded
  /\ pc[r] = "start"
  /\ status \in Refundable \cup {"processing"}
  /\ known' = IF linked THEN known \cup {r} ELSE known
  /\ Goto(r, "read")
  /\ UNCHANGED <<choice, tables, processor, hooks, answer, before, faults, lost>>

ReadPayment(r) ==
  /\ pc[r] = "start"
  /\ status \in Refundable
  /\ known' = IF linked THEN known \cup {r} ELSE known
  /\ Goto(r, "read")
  /\ UNCHANGED <<choice, tables, processor, hooks, answer, before, faults, lost>>

SucceededOnly == {q \in Refunds : refund[q] = "succeeded"}  \* mutant: pending refunds do not count

Counted == {q \in Refunds : refund[q] \in {"pending", "succeeded"}}

SumRefunds(r) ==
  /\ pc[r] = "read"
  /\ before' = [before EXCEPT ![r] = {q \in Refunds : refund[q] # "none"}]
  /\ Goto(r, IF SumOf(Counted) + size[r] > Amount THEN "done" ELSE "summed")
  /\ UNCHANGED <<choice, tables, processor, hooks, answer, known, faults, lost>>

InsertRefund(r) ==
  /\ pc[r] = "summed"
  /\ refund' = [refund EXCEPT ![r] = "pending"]
  /\ \/ Goto(r, "inserted") /\ NoFault
     \/ Goto(r, "done") /\ FatalFault
  /\ UNCHANGED <<choice, key, keyHash, status, linked, attempt, posted, receipts, processor,
                 hooks, answer, known, before>>

(* The processor knows the payment by its id, which the request may have    *)
(* read before create recorded it.                                          *)
CallRefund(r) ==
  /\ pc[r] = "inserted"
  /\ LET takes == r \in known /\ provider = "succeeded" /\ ~forgot
     IN \/ /\ accepted' = IF takes THEN accepted \cup {r} ELSE accepted
           /\ Goto(r, IF takes THEN "accepted" ELSE "refused") /\ NoFault
        \/ /\ accepted' \in {accepted, IF takes THEN accepted \cup {r} ELSE accepted}
           /\ Goto(r, "refused") /\ Fault
  /\ UNCHANGED <<choice, tables, provider, forgot, hooks, answer, known, before>>

RecordRefund(r) ==
  /\ pc[r] = "accepted"
  /\ \/ Goto(r, "done") /\ NoFault
     \/ Goto(r, "refused") /\ Fault
  /\ UNCHANGED <<choice, tables, processor, hooks, answer, known, before>>

(* The catch marks the refund failed, whatever it has become.               *)
FailRefund(r) ==
  /\ pc[r] = "refused"
  /\ Goto(r, "done")
  /\ \/ refund' = [refund EXCEPT ![r] = "failed"] /\ NoFault
     \/ UNCHANGED refund /\ FatalFault
  /\ UNCHANGED <<choice, key, keyHash, status, linked, attempt, posted, receipts, processor,
                 hooks, answer, known, before>>

-----------------------------------------------------------------------------
(* payment-service dies: requests under way are not answered, and the       *)
(* processor, which keeps payments and timers in memory, forgets them.      *)
ServiceDies ==
  /\ key # "free"
  /\ pc' = [q \in DOMAIN pc |-> IF pc[q] = "start" THEN "start" ELSE "done"]
  /\ answer' = [c \in Calls |-> IF pc[c] \in {"start", "done"} THEN answer[c] ELSE "500"]
  /\ forgot' = TRUE
  /\ FatalFault
  /\ UNCHANGED <<choice, tables, provider, accepted, hooks, known, before>>

CreateStep(c) == CallProcessor(c) \/ Submit(c) \/ FailPayment(c)
RefundStep(r) ==
  SumRefunds(r) \/ InsertRefund(r) \/ CallRefund(r) \/ RecordRefund(r) \/ FailRefund(r)
WebhookStep(h) == Deliver(h) \/ Claim(h) \/ Process(h)

Next ==
  \/ \E c \in Calls : Prepare(c) \/ Repeat(c) \/ CreateStep(c)
  \/ \E r \in Refunds : ReadPayment(r) \/ RefundStep(r)
  \/ \E h \in Hooks : WebhookStep(h) \/ ProcessFails(h) \/ WorkerDies(h)
  \/ Settle \/ ServiceDies

Spec == Init /\ [][Next]_vars

(* While a request is under way, an event to be delivered or applied, or a  *)
(* payment to be settled, one of them goes on: there is always a next step  *)
(* of some process to take, and none can be taken twice.  Nobody has to ask *)
(* for a payment or a refund.                                               *)
Going ==
  \/ \E c \in Calls : CreateStep(c)
  \/ \E r \in Refunds : RefundStep(r)
  \/ \E h \in Hooks : WebhookStep(h)
  \/ Settle

FairSpec == Spec /\ WF_vars(Going)

-----------------------------------------------------------------------------
Posted(r) == posted[r] > 0
PostedRefunds == {r \in Refunds : Posted(r)}
Captured == posted["capture"] > 0

(* docs/privacy-and-retention.md: "A provider capture can create at most    *)
(* one payment ledger transaction", a refund likewise, although an event is *)
(* applied again whenever the worker believes that it failed.  And what is  *)
(* in the ledger took place: a refund is posted only on top of the capture, *)
(* and both only if the processor says so.  (LedgerIsRecord implies it.)    *)
LedgerTellsTruth ==
  /\ \A e \in Entries : posted[e] <= 1
  /\ Captured => provider = "succeeded"
  /\ \A r \in PostedRefunds : r \in accepted /\ Captured

(* The ledger is a record: it grows by one entry at a time and changes     *)
(* none, and every entry follows what it is about, whatever is repeated,    *)
(* overlaps or dies in between: what the processor has settled, the capture,*)
(* the refund that the processor has taken of it.                           *)
Ledger == INSTANCE LedgerPromise WITH
  settled <- IF provider \in {"succeeded", "failed"} THEN provider ELSE "open",
  taken <- accepted,
  ledger <- posted

LedgerIsRecord == Ledger!Spec

(* Without faults the status of the payment says what the ledger has, in    *)
(* whatever order its webhooks, the answers of the processor and refunds    *)
(* come: an obsolete event never takes it back.  (A timeout token lets      *)
(* create fail a payment that is captured later or has been already.)       *)
StatusTellsLedger ==
  faults = 0 /\ outcome # "timeout" =>
    LET sum == SumOf(PostedRefunds) IN
      /\ Captured <=> status \in Refundable \cup {"refunded"}
      /\ status = "refunded" <=> sum = Amount
      /\ status = "partially_refunded" <=> sum \notin {0, Amount}
      /\ receipts = posted["capture"]

(* docs/privacy-and-retention.md: "Total successful refunds cannot exceed   *)
(* the captured amount."                                                    *)
RefundsWithinCapture == SumOf(PostedRefunds) <= Amount

(* Without faults they exceed it only if two of them were summed up before  *)
(* the row of the other was there.                                          *)
OnlyOverlapsExceed ==
  faults = 0 /\ ~RefundsWithinCapture =>
    \E q, r \in PostedRefunds : q # r /\ q \notin before[r] /\ r \notin before[q]

(* A second receipt job, and a status that forgets a refund, come from a    *)
(* payment.succeeded applied again, and only after the status had moved on: *)
(* by a refund or by the catch of create.                                   *)
SecondReceiptExplained ==
  receipts > posted["capture"] =>
    faults > 0 /\ (PostedRefunds # {} \/ \E c \in Calls : answer[c] \in {"500", "502"})

(* Calls with the same key that were answered were answered alike, and only *)
(* for the same request, unless a fault intervened.                         *)
AnswersAgree ==
  \A c, d \in Calls :
    faults = 0 /\ answer[c] \in {"202", "502"} /\ answer[d] \notin {"none", "409"} =>
      answer[c] = answer[d] /\ hash[c] = hash[d]

(* A payment that is processing and a refund that is pending do not stay    *)
(* so, in spite of errors of webhook-worker, unless something went under    *)
(* that nothing repeats: a process that died, a delivery that failed, an    *)
(* event that failed too often.  Without faults every refund the processor  *)
(* took reaches the ledger.                                                 *)
EverythingSettles ==
  <>[](lost \/ /\ status # "processing" /\ \A r \in Refunds : refund[r] # "pending"
               /\ faults = 0 => accepted = PostedRefunds)
=============================================================================
