---------------------------- MODULE PersonalData ----------------------------
(***************************************************************************)
(* Where the personal data of one customer goes, and what the erasure      *)
(* participants find of it.                                                *)
(*                                                                         *)
(* payment-service, webhook-worker, document-worker, projection-worker and *)
(* notification-worker copy the data from row to row: a payment keeps a    *)
(* snapshot of the customer, its receipt job and its events repeat the     *)
(* snapshot, the consumers of the events write it to search, cache,        *)
(* analytics and e-mail.  Each copies what it read some awaits earlier.    *)
(* The participants of the erasure pass over the stores one after another. *)
(*                                                                         *)
(* A row is what it still holds of the customer: "uuid", the original      *)
(* customer id (else it holds the surrogate or nothing), and "pii", any    *)
(* other value.  The participants and the consumers tell rows apart by     *)
(* exactly this.                                                           *)
(*                                                                         *)
(* Attempts of the erasure itself are in ErasureWorkflow, the sending of   *)
(* one e-mail under the advisory lock in MailSuppression, payments and     *)
(* their webhooks in PaymentLifecycle.                                     *)
(***************************************************************************)
EXTENDS Naturals, FiniteSets

CONSTANTS
  Scenarios,    \* sets of operations that take place together
  MaxAttempts   \* jobs.max_attempts

AllFlows == {"create", "refund", "receipt", "invoice"}

ASSUME DataAssumption ==
  /\ Scenarios \subseteq SUBSET AllFlows
  /\ MaxAttempts \in Nat \ {0}

VARIABLES
  flows,      \* the operations that take place
  held,       \* held[t][r]: what row r of table t holds of the customer
  tombstone,  \* privacy.erased_subjects has the customer
  payment,    \* payment_intents.status of the payment
  job,        \* operations.jobs.status of its receipt job
  attempts,   \* operations.jobs.attempts
  published,  \* events that are in Kafka, which keeps them
  inbox,      \* events that each consumer has entered in inbox_events
  settled,    \* email_deliveries that are delivered or cancelled
  pc,         \* where each writer is
  copy,       \* what it has in memory of the customer
  event,      \* the event a consumer is at
  at,         \* the participant that runs
  escaped,    \* history: writers that were past their look at the tombstone or
              \* at the customer when it changed, or left a document no row names
  carried     \* history: writers that had the original id in memory, or a job
              \* read it again, when the events had been sanitized

queues == <<job, attempts, published, inbox, settled>>
writers == <<pc, copy, event>>
past == <<escaped, carried>>
vars == <<flows, held, tombstone, payment, queues, writers, at, past>>

(* A row has the name of the event that goes with it.                       *)
Rows == {"customer", "intent", "submitted", "succeeded", "refunded", "receipt", "issued"}
Tables == {"customers", "mappings", "providerCustomers", "payments", "refunds", "invoices",
           "jobs", "deadLetters", "keys", "documents", "manifests", "outbox", "topic",
           "cache", "search", "analytics", "notices", "letters", "mail"}
Raw == {"uuid", "pii"}
Nothing == [r \in Rows |-> {}]

Consumers == {"projection", "notification"}
Writers == AllFlows \cup Consumers
(* EVENT_TYPES: which make search documents, customer activity, e-mail.     *)
CustomerEvents == {"customer"}
PaymentEvents == {"intent", "submitted", "succeeded", "refunded"}
MailEvents == {"succeeded", "refunded", "issued"}

Participants == {"quiesce", "financial", "objects", "provider", "events", "records",
                 "secondPass", "cache", "search", "customer", "verify", "completed"}

TypeOK ==
  /\ flows \in Scenarios
  /\ held \in [Tables -> [Rows -> SUBSET Raw]]
  /\ tombstone \in BOOLEAN
  /\ payment \in {"none", "processing", "succeeded"}
  /\ job \in {"none", "pending", "retry", "processing", "completed", "dead"}
  /\ attempts \in 0 .. MaxAttempts
  /\ published \subseteq Rows
  /\ inbox \in [Consumers -> SUBSET Rows]
  /\ settled \subseteq Rows
  /\ pc \in [Writers -> {"start", "fetched", "ensured", "inserted", "called", "read", "looked",
                         "stored", "replaced", "redacted", "indexed", "cached", "done"}]
  /\ copy \in [Writers -> SUBSET Raw]
  /\ event \in [Consumers -> Rows]
  /\ at \in Participants
  /\ escaped \subseteq Writers
  /\ carried \subseteq Writers

(* The events consumed so far: customer.created is the first thing a        *)
(* scenario without operations has to consume; a payment to be created      *)
(* finds a customer, perhaps one that has paid before; the other operations *)
(* find a payment whose webhook is awaited.                                 *)
Consumed ==
  CASE flows = {} -> {}
    [] "create" \in flows -> {"customer"}
    [] OTHER -> {"customer", "intent", "submitted"}
WrittenBefore == [t \in Tables |->
  CASE t \in {"customers", "search"} -> {"customer"}
    [] t \in {"payments", "providerCustomers"} -> {"intent"}
    [] t \in {"outbox", "topic", "cache", "analytics"} -> {"customer", "intent", "submitted"}
    [] t = "keys" -> {"submitted"}
    [] OTHER -> {}]

Init ==
  /\ flows \in Scenarios
  /\ \E mapping \in IF "create" \in flows THEN {{}, {"uuid"}} ELSE {{"uuid"}} :
       held = [t \in Tables |-> [r \in Rows |->
         IF t = "mappings" /\ r = "customer" THEN mapping
         ELSE IF t \in {"customers", "outbox"} /\ r = "customer" THEN Raw
         ELSE IF r \notin Consumed \cap WrittenBefore[t] THEN {}
         ELSE IF r = "submitted" THEN {"uuid"} ELSE Raw]]
  /\ payment = IF "intent" \in Consumed THEN "processing" ELSE "none"
  /\ published = Consumed
  /\ inbox = [c \in Consumers |-> Consumed]
  /\ tombstone = FALSE
  /\ job = "none"
  /\ attempts = 0
  /\ settled = {}
  /\ pc = [w \in Writers |-> "start"]
  /\ copy = [w \in Writers |-> {}]
  /\ event = [c \in Consumers |-> "customer"]
  /\ at = "quiesce"
  /\ escaped = {}
  /\ carried = {}

Goto(w, next) == pc' = [pc EXCEPT ![w] = next]
Carry(w, what) == copy' = [copy EXCEPT ![w] = what]
Finish(w) == Goto(w, "done") /\ Carry(w, {})
Put(t, r, what) == held' = [held EXCEPT ![t][r] = what]

(* erasedSubjectSurrogate and isErasedSubject know the original id only;    *)
(* erasedSubjectByAnyId knows the surrogate too.                            *)
Suppressed(what) == tombstone /\ "uuid" \in what
SuppressedByAnyId == tombstone

-----------------------------------------------------------------------------
(* payment-service: create.                                                 *)

FetchCustomer ==
  /\ "create" \in flows /\ pc["create"] = "start"
  /\ ~tombstone
  /\ Goto("create", "fetched")
  /\ Carry("create", held["customers"]["customer"])
  /\ UNCHANGED <<flows, held, tombstone, payment, queues, event, at, past>>

(* A known mapping is returned whatever the status of the customer.         *)
EnsureProviderCustomer ==
  /\ pc["create"] = "fetched"
  /\ \/ /\ held["mappings"]["customer"] # {} \/ ~tombstone
        /\ Put("mappings", "customer", {"uuid"})
        /\ Goto("create", "ensured") /\ UNCHANGED copy
     \/ /\ held["mappings"]["customer"] = {} /\ tombstone
        /\ Finish("create") /\ UNCHANGED held
  /\ UNCHANGED <<flows, tombstone, payment, queues, event, at, past>>

InsertPayment ==
  /\ pc["create"] = "ensured"
  /\ held' = [held EXCEPT !["providerCustomers"]["intent"] = copy["create"],
                          !["payments"]["intent"] = copy["create"],
                          !["outbox"]["intent"] = copy["create"]]
  /\ payment' = "processing"
  /\ Goto("create", "inserted")
  /\ UNCHANGED <<flows, tombstone, queues, copy, event, at, past>>

(* The processor keeps the customer it is told, when the call gets through. *)
CallProcessor ==
  /\ pc["create"] = "inserted"
  /\ UNCHANGED held \/ Put("providerCustomers", "intent", copy["create"])
  /\ Goto("create", "called")
  /\ UNCHANGED <<flows, tombstone, payment, queues, copy, event, at, past>>

(* The answer of the processor: the event and the answer kept under the     *)
(* idempotency key repeat the id of the request; those of an error do not.  *)
SubmitPayment ==
  /\ pc["create"] = "called"
  /\ \/ UNCHANGED held
     \/ held' = [held EXCEPT !["outbox"]["submitted"] = {"uuid"},
                             !["keys"]["submitted"] = {"uuid"}]
  /\ Finish("create")
  /\ UNCHANGED <<flows, tombstone, payment, queues, event, at, past>>

(* webhook-worker: the job and the event repeat what the payment holds.     *)
PaymentSucceeded ==
  /\ payment = "processing"
  /\ payment' = "succeeded"
  /\ held' = [held EXCEPT !["jobs"]["receipt"] = held["payments"]["intent"],
                          !["outbox"]["succeeded"] = held["payments"]["intent"]]
  /\ job' = "pending"
  /\ UNCHANGED <<flows, tombstone, attempts, published, inbox, settled, writers, at, past>>

-----------------------------------------------------------------------------
(* payment-service: refund, and its webhook.                                *)

ReadPayment ==
  /\ "refund" \in flows /\ pc["refund"] = "start"
  /\ payment = "succeeded"
  /\ Carry("refund", held["payments"]["intent"])
  /\ Goto("refund", "read")
  /\ UNCHANGED <<flows, held, tombstone, payment, queues, event, at, past>>

LookUpUnchecked ==  \* mutant: the address is taken from the snapshot in any case
  /\ pc["refund"] = "read"
  /\ Carry("refund", copy["refund"] \cap {"pii"})
  /\ Goto("refund", "looked")
  /\ UNCHANGED <<flows, held, tombstone, payment, queues, event, at, past>>

LookUpRefunded ==
  /\ pc["refund"] = "read"
  /\ Carry("refund", IF SuppressedByAnyId THEN {} ELSE copy["refund"] \cap {"pii"})
  /\ Goto("refund", "looked")
  /\ UNCHANGED <<flows, held, tombstone, payment, queues, event, at, past>>

InsertRefund ==
  /\ pc["refund"] = "looked"
  /\ Put("refunds", "refunded", copy["refund"])
  /\ Goto("refund", "inserted")
  /\ Carry("refund", {})
  /\ UNCHANGED <<flows, tombstone, payment, queues, event, at, past>>

(* The event has the customer id of the payment and the address of the      *)
(* refund.                                                                  *)
RefundSucceeded ==
  /\ pc["refund"] = "inserted"
  /\ Put("outbox", "refunded",
         (held["payments"]["intent"] \cap {"uuid"}) \cup held["refunds"]["refunded"])
  /\ Goto("refund", "done")
  /\ UNCHANGED <<flows, tombstone, payment, queues, copy, event, at, past>>

-----------------------------------------------------------------------------
(* payment-service: invoices.  The customer is served until the row is      *)
(* deleted, also while it is erasure_pending.                               *)

FetchForInvoice ==
  /\ "invoice" \in flows /\ pc["invoice"] = "start"
  /\ held["customers"]["customer"] # {}
  /\ Carry("invoice", held["customers"]["customer"])
  /\ Goto("invoice", "fetched")
  /\ UNCHANGED <<flows, held, tombstone, payment, queues, event, at, past>>

StoreInvoice ==
  /\ pc["invoice"] = "fetched"
  /\ Put("documents", "issued", copy["invoice"])
  /\ Goto("invoice", "stored")
  /\ UNCHANGED <<flows, tombstone, payment, queues, copy, event, at, past>>

InsertInvoice ==
  /\ pc["invoice"] = "stored"
  /\ held' = [held EXCEPT !["invoices"]["issued"] = copy["invoice"],
                          !["manifests"]["issued"] = {"uuid"},
                          !["outbox"]["issued"] = copy["invoice"]]
  /\ Finish("invoice")
  /\ UNCHANGED <<flows, tombstone, payment, queues, event, at, past>>

(* The transaction fails: the document stays, and no manifest names it.     *)
InvoiceFails ==
  /\ pc["invoice"] = "stored"
  /\ Finish("invoice")
  /\ escaped' = escaped \cup {"invoice"}
  /\ UNCHANGED <<flows, held, tombstone, payment, queues, event, at, carried>>

-----------------------------------------------------------------------------
(* document-worker.  copy is the payload as claimed; when the customer is   *)
(* erased the receipt is written from a replaced payload.                   *)

ClaimJob ==
  /\ "receipt" \in flows /\ pc["receipt"] = "start"
  /\ job \in {"pending", "retry"}
  /\ job' = "processing"
  /\ attempts' = attempts + 1
  /\ Carry("receipt", held["jobs"]["receipt"])
  /\ Goto("receipt", "read")
  /\ carried' = carried \cup (IF at = "records" /\ copy'["receipt"] # {} THEN {"receipt"} ELSE {})
  /\ UNCHANGED <<flows, held, tombstone, payment, published, inbox, settled, event, at, escaped>>

LookUpByAnyRow ==  \* mutant: the tombstone is not looked up
  /\ pc["receipt"] = "read"
  /\ Goto("receipt", "looked")
  /\ UNCHANGED <<flows, held, tombstone, payment, queues, copy, event, at, past>>

LookUpReceipt ==
  /\ pc["receipt"] = "read"
  /\ Goto("receipt", IF Suppressed(copy["receipt"]) THEN "replaced" ELSE "looked")
  /\ UNCHANGED <<flows, held, tombstone, payment, queues, copy, event, at, past>>

StoreReceipt ==
  /\ \/ /\ pc["receipt"] = "looked"
        /\ Put("documents", "receipt", copy["receipt"])
        /\ Goto("receipt", "stored")
     \/ /\ pc["receipt"] = "replaced"
        /\ Put("documents", "receipt", {})
        /\ Goto("receipt", "redacted")
  /\ UNCHANGED <<flows, tombstone, payment, queues, copy, event, at, past>>

(* The manifest names the customer of the replaced payload, the event the   *)
(* one of the payload as claimed.                                           *)
CompleteJob ==
  /\ pc["receipt"] \in {"stored", "redacted"}
  /\ LET id == copy["receipt"] \cap {"uuid"}
     IN held' = [held EXCEPT
          !["manifests"]["receipt"] = IF pc["receipt"] = "redacted" THEN {} ELSE id,
          !["outbox"]["receipt"] = id]
  /\ job' = "completed"
  /\ Finish("receipt")
  /\ UNCHANGED <<flows, tombstone, payment, attempts, published, inbox, settled, event, at, past>>

(* The receipt was stored and no manifest names it.                         *)
Orphan == IF pc["receipt"] = "stored" /\ copy["receipt"] # {} THEN {"receipt"} ELSE {}
AtJob == {"read", "looked", "replaced", "stored", "redacted"}

JobFailsForever ==  \* mutant: the attempts are not compared with the maximum
  /\ pc["receipt"] \in AtJob
  /\ job' = "retry"
  /\ Goto("receipt", "start")
  /\ Carry("receipt", {})
  /\ escaped' = escaped \cup Orphan
  /\ UNCHANGED <<flows, held, tombstone, payment, attempts, published, inbox, settled, event,
                 at, carried>>

(* An error anywhere in complete; the dead letter has the payload as claimed.*)
JobFails ==
  /\ pc["receipt"] \in AtJob
  /\ \/ /\ attempts < MaxAttempts
        /\ job' = "retry"
        /\ UNCHANGED held
     \/ /\ attempts >= MaxAttempts
        /\ job' = "dead"
        /\ Put("deadLetters", "receipt", copy["receipt"])
  /\ Goto("receipt", "start")
  /\ Carry("receipt", {})
  /\ escaped' = escaped \cup Orphan
  /\ UNCHANGED <<flows, tombstone, payment, attempts, published, inbox, settled, event, at, carried>>

(* The worker dies: its job stays processing, which nothing claims.         *)
WorkerDies ==
  /\ pc["receipt"] \in AtJob
  /\ Finish("receipt")
  /\ escaped' = escaped \cup Orphan
  /\ UNCHANGED <<flows, held, tombstone, payment, queues, event, at, carried>>

-----------------------------------------------------------------------------
(* The outbox and the consumers.  Kafka keeps what it was given.  An event  *)
(* that holds nothing of the customer has no effect on any of these rows.   *)

Publish(e) ==
  /\ held["outbox"][e] # {} /\ e \notin published
  /\ published' = published \cup {e}
  /\ Put("topic", e, held["outbox"][e])
  /\ UNCHANGED <<flows, tombstone, payment, job, attempts, inbox, settled, writers, at, past>>

Enter(c, e) == inbox' = [inbox EXCEPT ![c] = @ \cup {e}]
Return(c) == Goto(c, "start") /\ Carry(c, {})
Available(c, e) == pc[c] = "start" /\ e \in published /\ e \notin inbox[c]

(* projection-worker enters the event before it is projected; one that is   *)
(* redelivered is dropped.                                                  *)
ReceiveProjection(e) ==
  /\ Available("projection", e)
  /\ Enter("projection", e)
  /\ event' = [event EXCEPT !["projection"] = e]
  /\ Carry("projection", held["topic"][e])
  /\ Goto("projection", "read")
  /\ UNCHANGED <<flows, held, tombstone, payment, job, attempts, published, settled, at, past>>

ByCustomer(t) == [r \in Rows |-> IF "uuid" \in held[t][r] THEN {} ELSE held[t][r]]

ProjectionUnchecked ==  \* mutant: every event is projected
  /\ pc["projection"] = "read"
  /\ Goto("projection", "looked")
  /\ UNCHANGED <<flows, held, tombstone, payment, queues, copy, event, at, past>>

LookUpProjection ==
  /\ pc["projection"] = "read"
  /\ \/ /\ Suppressed(copy["projection"])
        /\ held' = [held EXCEPT !["cache"] = ByCustomer("cache"),
                                !["search"] = ByCustomer("search")]
        /\ Return("projection")
     \/ /\ ~Suppressed(copy["projection"])
        /\ Goto("projection", "looked")
        /\ UNCHANGED <<held, copy>>
  /\ UNCHANGED <<flows, tombstone, payment, queues, event, at, past>>

Project(from, t, events, to) ==
  /\ pc["projection"] = from
  /\ LET e == event["projection"]
     IN IF e \in events THEN Put(t, e, copy["projection"]) ELSE UNCHANGED held
  /\ IF to = "start" THEN Return("projection") ELSE Goto("projection", to) /\ UNCHANGED copy
  /\ UNCHANGED <<flows, tombstone, payment, queues, event, at, past>>

IndexDocument == Project("looked", "search", CustomerEvents, "indexed")
CacheActivity == Project("indexed", "cache", CustomerEvents \cup PaymentEvents, "cached")
RecordAnalytics == Project("cached", "analytics", Rows, "start")

ProjectionFails ==
  /\ pc["projection"] \in {"read", "looked", "indexed", "cached"}
  /\ Return("projection")
  /\ UNCHANGED <<flows, held, tombstone, payment, queues, event, at, past>>

(* recordDelivery: one transaction, whose look at the tombstone sees what   *)
(* was committed before it.                                                 *)
LookUpDelivery(e) ==
  /\ Available("notification", e) /\ e \in MailEvents
  /\ IF Suppressed(held["topic"][e])
     THEN Enter("notification", e) /\ UNCHANGED <<pc, copy, event>>
     ELSE /\ Goto("notification", "looked")
          /\ Carry("notification", held["topic"][e])
          /\ event' = [event EXCEPT !["notification"] = e]
          /\ UNCHANGED inbox
  /\ UNCHANGED <<flows, held, tombstone, payment, job, attempts, published, settled, at, past>>

(* No address, no letter.                                                   *)
RecordDelivery ==
  /\ pc["notification"] = "looked"
  /\ LET e == event["notification"] what == copy["notification"]
     IN /\ held' = IF "pii" \in what
                   THEN [held EXCEPT !["letters"][e] = what, !["notices"][e] = what] ELSE held
        /\ Enter("notification", e)
  /\ Return("notification")
  /\ UNCHANGED <<flows, tombstone, payment, job, attempts, published, settled, event, at, past>>

DeliveryRollsBack ==
  /\ pc["notification"] = "looked"
  /\ Return("notification")
  /\ UNCHANGED <<flows, held, tombstone, payment, queues, event, at, past>>

DeliverUnchecked(e) ==  \* mutant: sends without a second look
  /\ held["letters"][e] # {} /\ e \notin settled
  /\ settled' = settled \cup {e}
  /\ Put("mail", e, {"pii"})
  /\ UNCHANGED <<flows, tombstone, payment, job, attempts, published, inbox, writers, at, past>>

(* deliverOne, under the advisory lock of the customer.                     *)
Deliver(e) ==
  /\ held["letters"][e] # {} /\ e \notin settled
  /\ settled' = settled \cup {e}
  /\ IF Suppressed(held["letters"][e]) THEN Put("letters", e, {}) ELSE Put("mail", e, {"pii"})
  /\ UNCHANGED <<flows, tombstone, payment, job, attempts, published, inbox, writers, at, past>>

-----------------------------------------------------------------------------
(* The participants of the erasure, in the order of workflow.ts.            *)

Advance(from, to) == at = from /\ at' = to

(* Writers that have looked and not yet written, with data in memory.       *)
PastLook ==
  {w \in Writers : copy[w] # {} /\ pc[w] \in {"fetched", "ensured", "looked", "stored",
                                              "indexed", "cached"}} \ {"invoice"}

QuiesceSubject ==
  /\ Advance("quiesce", "financial")
  /\ tombstone' = TRUE
  /\ escaped' = escaped \cup PastLook
  /\ UNCHANGED <<flows, held, payment, queues, writers, carried>>

(* Refunds go by the payments found.                                        *)
AnonymizeFinancialRecords ==
  /\ Advance("financial", "objects")
  /\ held' = [held EXCEPT
       !["payments"] = Nothing,
       !["refunds"] = IF held["payments"]["intent"] # {} THEN Nothing ELSE @,
       !["invoices"] = Nothing]
  /\ UNCHANGED <<flows, tombstone, payment, queues, writers, past>>

(* Documents go by the manifests of the customer.                           *)
SanitizeObjectStorage ==
  /\ Advance("objects", "provider")
  /\ held' = [held EXCEPT !["documents"] =
       [r \in Rows |-> IF "uuid" \in held["manifests"][r] THEN {} ELSE @[r]]]
  /\ UNCHANGED <<flows, tombstone, payment, queues, writers, past>>

EraseNotificationProvider ==
  /\ Advance("provider", "events")
  /\ settled' = settled \cup {r \in Rows : "uuid" \in held["letters"][r]}
  /\ held' = [held EXCEPT !["letters"] = ByCustomer("letters"), !["mail"] = Nothing]
  /\ UNCHANGED <<flows, tombstone, payment, job, attempts, published, inbox, writers, past>>

(* One transaction whose statements each see what is committed before them. *)
SanitizeEvents ==
  /\ Advance("events", "records")
  /\ held' = [held EXCEPT !["outbox"] = Nothing]
  /\ carried' = carried \cup {w \in {"create", "receipt"} :
                             pc[w] \in AtJob \cup {"inserted", "called"} /\ copy[w] # {}}
  /\ UNCHANGED <<flows, tombstone, payment, queues, writers, escaped>>

SanitizeRecords ==
  /\ Advance("records", "secondPass")
  /\ held' = [held EXCEPT !["jobs"] = Nothing, !["deadLetters"] = Nothing, !["keys"] = Nothing,
       !["analytics"] = Nothing, !["notices"] = ByCustomer("notices"), !["manifests"] = Nothing]
  /\ UNCHANGED <<flows, tombstone, payment, queues, writers, past>>

DeleteNotifications ==
  /\ Advance("secondPass", "cache")
  /\ held' = [held EXCEPT !["notices"] = ByCustomer("notices")]
  /\ UNCHANGED <<flows, tombstone, payment, queues, writers, past>>

EraseCache ==
  /\ Advance("cache", "search")
  /\ held' = [held EXCEPT !["cache"] = Nothing]
  /\ UNCHANGED <<flows, tombstone, payment, queues, writers, past>>

EraseSearch ==
  /\ Advance("search", "customer")
  /\ held' = [held EXCEPT !["search"] = ByCustomer("search")]
  /\ UNCHANGED <<flows, tombstone, payment, queues, writers, past>>

EraseCustomerRecords ==
  /\ Advance("customer", "verify")
  /\ held' = [held EXCEPT !["providerCustomers"] = Nothing, !["mappings"] = Nothing,
                          !["customers"] = Nothing]
  /\ escaped' = escaped \cup (IF copy["invoice"] # {} THEN {"invoice"} ELSE {})
  /\ UNCHANGED <<flows, tombstone, payment, queues, writers, carried>>

(* Rows with the customer's id, mail to the customer, and event, job and    *)
(* analytics payloads that have the surrogate and still hold a value.       *)
VerificationPasses ==
  /\ \A t \in {"customers", "payments", "invoices", "notices", "letters", "cache", "search"},
        r \in Rows : "uuid" \notin held[t][r]
  /\ held["mail"] = Nothing
  /\ \A t \in {"outbox", "jobs", "analytics"}, r \in Rows : held[t][r] # {"pii"}

VerifyCompletion ==
  /\ VerificationPasses
  /\ Advance("verify", "completed")
  /\ UNCHANGED <<flows, held, tombstone, payment, queues, writers, past>>

-----------------------------------------------------------------------------
Requests ==
  \/ FetchCustomer \/ EnsureProviderCustomer \/ InsertPayment \/ CallProcessor
  \/ SubmitPayment
  \/ PaymentSucceeded
  \/ ReadPayment \/ LookUpRefunded \/ InsertRefund \/ RefundSucceeded
  \/ FetchForInvoice \/ StoreInvoice \/ InsertInvoice \/ InvoiceFails

Jobs ==
  \/ ClaimJob \/ LookUpReceipt \/ StoreReceipt \/ CompleteJob \/ JobFails \/ WorkerDies

Consume ==
  \/ \E e \in Rows : Publish(e) \/ ReceiveProjection(e) \/ LookUpDelivery(e) \/ Deliver(e)
  \/ LookUpProjection \/ IndexDocument \/ CacheActivity \/ RecordAnalytics \/ ProjectionFails
  \/ RecordDelivery \/ DeliveryRollsBack

Erase ==
  \/ QuiesceSubject \/ AnonymizeFinancialRecords \/ SanitizeObjectStorage
  \/ EraseNotificationProvider \/ SanitizeEvents \/ SanitizeRecords \/ DeleteNotifications
  \/ EraseCache \/ EraseSearch \/ EraseCustomerRecords \/ VerifyCompletion

Next == Requests \/ Jobs \/ Consume \/ Erase

Spec == Init /\ [][Next]_vars

-----------------------------------------------------------------------------
OnTime == escaped = {} /\ carried = {}

(* docs/privacy-and-retention.md: the customer must stay erased after       *)
(* replays, delayed webhooks and retries.  No row of any store holds        *)
(* anything of a customer whose erasure was reported completed, then or     *)
(* later, whichever payments, jobs, events and e-mails were under way,      *)
(* unless a writer had looked before the tombstone and wrote after it, an   *)
(* id was in memory when the events were sanitized, or a document was left  *)
(* without a manifest.                                                      *)
CompletedMeansClean ==
  at = "completed" /\ OnTime => \A t \in Tables \ {"topic"} : held[t] = Nothing

(* What consumers know a customer by is the original id.  No event and no   *)
(* letter has an address without it, so none passes their look at the       *)
(* tombstone, unless a refund looked before it.                             *)
AddressNeverWithoutId ==
  \A t \in {"outbox", "topic", "jobs", "letters", "notices", "analytics"}, r \in Rows :
     held[t][r] = {"pii"} => "refund" \in escaped

(* docs/privacy-and-retention.md: "Suppressed consumers cannot recreate     *)
(* personal data from an old or replayed event."  No e-mail is sent to the  *)
(* customer once the tombstone stands, unless a refund escaped it.          *)
NoMailOnceSuppressed ==
  [][\A r \in Rows : held["mail"][r] = {} /\ held'["mail"][r] # {} =>
       ~tombstone \/ "refund" \in escaped]_vars

(* Verification, which a retry repeats without the participants before it,  *)
(* stands still only over what a late writer or an invoice of the last      *)
(* moments left.                                                            *)
BlockedByLateRowsOnly ==
  at = "verify" /\ ~VerificationPasses =>
    escaped # {} \/ "uuid" \in held["invoices"]["issued"]

(* docs/privacy-and-retention.md: after completion "the original customer   *)
(* UUID may appear only in the erasure-request and suppression records".    *)
IdOnlyInTombstone ==
  at = "completed" /\ escaped = {} =>
    \A t \in Tables \ {"topic"}, r \in Rows : "uuid" \notin held[t][r]
=============================================================================
