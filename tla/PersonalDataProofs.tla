-------------------------- MODULE PersonalDataProofs --------------------------
(***************************************************************************)
(* For any set of operations that overlap, each with the publisher, the    *)
(* consumers and the erasure: what is left of the customer comes from the  *)
(* writers that escaped the tombstone or carried the id past the sanitized *)
(* events, and from nobody else.  The argument goes along the participants:*)
(* behind each of them its stores stay empty, because a writer that looks  *)
(* after the tombstone has nothing in its hands.  That it finds the        *)
(* tombstone rests on Whole: whatever has an address has the id.           *)
(***************************************************************************)
EXTENDS PersonalData, TLAPS

(* The participants that have passed. *)
PastQuiesce == at # "quiesce"
PastFinancial == at \notin {"quiesce", "financial"}
PastObjects == PastFinancial /\ at # "objects"
PastProvider == PastObjects /\ at # "provider"
PastEvents == PastProvider /\ at # "events"
PastRecords == PastEvents /\ at # "records"
PastCache == PastRecords /\ at \notin {"secondPass", "cache"}
PastSearch == PastCache /\ at # "search"
PastCustomer == PastSearch /\ at # "customer"

Empty(t) == \A r \in Rows : held[t][r] = {}
EmptyBut(t, r) == \A q \in Rows \ {r} : held[t][q] = {}

(* A request or a job has its data from the first statement to the last,   *)
(* and the customer row keeps its data until the last participant.         *)
Shape ==
  /\ tombstone <=> PastQuiesce
  /\ held["customers"]["customer"] = IF PastCustomer THEN {} ELSE Raw
  /\ pc["create"] \in {"start", "fetched", "ensured", "inserted", "called", "done"}
  /\ pc["create"] \notin {"start", "done"} => copy["create"] = Raw
  /\ pc["invoice"] \in {"start", "fetched", "stored", "done"}
  /\ pc["invoice"] \in {"fetched", "stored"} => copy["invoice"] = Raw
  /\ pc["invoice"] \in {"start", "done"} => copy["invoice"] = {}
  /\ pc["receipt"] \in {"start", "done"} \cup AtJob
  /\ pc["receipt"] \in {"start", "done"} => copy["receipt"] = {}
  /\ pc["receipt"] # "done" => held["manifests"]["receipt"] = {}
  /\ payment = "none" \/ tombstone \/ held["payments"]["intent"] = Raw

(* A job is there after the payment has succeeded, with an attempt left    *)
(* when it is to be claimed.                                               *)
Tries ==
  /\ "create" \in flows /\ pc["create"] \in {"start", "fetched", "ensured"} => payment = "none"
  /\ "create" \notin flows => pc["create"] = "start"
  /\ payment # "succeeded" => job = "none" /\ attempts = 0
  /\ job = "none" => pc["receipt"] = "start"
  /\ job \in {"pending", "retry"} => attempts < MaxAttempts

(* Whatever has an address has the id, refunds and messages apart.         *)
WholeRows == \A t \in Tables \ {"refunds", "mail"}, r \in Rows : held[t][r] # {"pii"}
WholeCopies == \A w \in Writers \ {"refund"} : copy[w] # {"pii"}

(* The payment that a refund goes by is there.                             *)
RefundsHavePayment ==
  /\ Empty("refunds") \/ "uuid" \in held["payments"]["intent"]
  /\ pc["refund"] = "looked" => IF tombstone THEN copy["refund"] = {} ELSE payment # "none"
  /\ pc["refund"] = "read" => payment # "none"

Whole == "refund" \notin escaped => WholeRows /\ WholeCopies /\ RefundsHavePayment

(* Who looks after the tombstone has nothing in its hands.                 *)
NothingPastLook ==
  tombstone => \A w \in Writers \ {"invoice"} :
    pc[w] \in {"fetched", "ensured", "looked", "stored", "indexed", "cached"} => copy[w] = {}

(* The stores behind each participant.  An invoice that is inserted when   *)
(* its store has been passed blocks the verification.                      *)
Blocked == "uuid" \in held["invoices"]["issued"]

BehindFinancial ==
  PastFinancial => Empty("payments") /\ Empty("refunds") /\ EmptyBut("invoices", "issued")

(* A document has a manifest, or is in the hands of who stored it.         *)
Documented(r) ==
  \/ "uuid" \in held["manifests"][r]
  \/ r = "issued" /\ pc["invoice"] = "stored"
  \/ r = "receipt" /\ pc["receipt"] = "stored" /\ copy["receipt"] # {}

BehindObjects ==
  /\ ~PastObjects => \A r \in Rows : held["documents"][r] # {} => Documented(r)
  /\ PastObjects => /\ EmptyBut("documents", "issued")
                    /\ held["documents"]["issued"] # {} => Blocked \/ pc["invoice"] = "stored"

BehindProvider == PastProvider => Empty("letters") /\ Empty("mail")
BehindRecords == PastRecords => Empty("notices") /\ Empty("jobs") /\ Empty("analytics")
BehindSearch == (PastCache => Empty("cache")) /\ (PastSearch => Empty("search"))
BehindCustomer ==
  /\ PastCustomer => /\ Empty("customers") /\ Empty("mappings")
                     /\ pc["invoice"] \in {"start", "done"}
  /\ at = "completed" => ~Blocked

Behind ==
  escaped = {} =>
    /\ NothingPastLook /\ BehindFinancial /\ BehindObjects /\ BehindProvider /\ BehindRecords
    /\ BehindSearch /\ BehindCustomer

(* The same of the stores that an id may be carried to.                    *)
BehindEvents ==
  PastEvents => /\ pc["create"] \in {"start", "done"} /\ copy["receipt"] = {}
                /\ EmptyBut("outbox", "issued")
                /\ held["outbox"]["issued"] # {} => Blocked
BehindJobs ==
  PastRecords => /\ Empty("deadLetters") /\ Empty("keys") /\ EmptyBut("manifests", "issued")
                 /\ held["manifests"]["issued"] # {} => Blocked
BehindCustomerIds == PastCustomer => Empty("providerCustomers")

BehindAll == OnTime => BehindEvents /\ BehindJobs /\ BehindCustomerIds

DataInv == TypeOK /\ Tries /\ Shape /\ Whole /\ Behind /\ BehindAll

-----------------------------------------------------------------------------
(* Every step keeps the types. *)
LEMMA TypeStep ==
  ASSUME TypeOK, Tries, [Next]_vars
  PROVE  TypeOK'
<1> USE DataAssumption
<1> USE DEF TypeOK, Goto, Carry, Finish, Return, Put, Project, Advance, Enter, Available, queues,
            writers, past, Tables, Rows, Raw, Writers, AllFlows, Consumers, Participants, Nothing,
            ByCustomer
<1>1. CASE FetchCustomer
  BY <1>1 DEF FetchCustomer
<1>2. CASE EnsureProviderCustomer
  BY <1>2, SMTT(40) DEF EnsureProviderCustomer
<1>3. CASE InsertPayment
  <2>1. held' \in [Tables -> [Rows -> SUBSET Raw]]
    BY <1>3, ZenonT(30) DEF InsertPayment
  <2> QED
    BY <1>3, <2>1 DEF InsertPayment
<1>4. CASE CallProcessor
  BY <1>4 DEF CallProcessor
<1>5. CASE SubmitPayment
  <2>1. held' \in [Tables -> [Rows -> SUBSET Raw]]
    BY <1>5, SMTT(40) DEF SubmitPayment
  <2> QED
    BY <1>5, <2>1 DEF SubmitPayment
<1>6. CASE PaymentSucceeded
  <2>1. held["payments"]["intent"] \in SUBSET Raw
    OBVIOUS
  <2>2. held' \in [Tables -> [Rows -> SUBSET Raw]]
    BY <1>6, <2>1, ZenonT(30) DEF PaymentSucceeded
  <2> QED
    BY <1>6, <2>2 DEF PaymentSucceeded
<1>7. CASE ReadPayment
  BY <1>7 DEF ReadPayment
<1>8. CASE LookUpRefunded
  BY <1>8 DEF LookUpRefunded
<1>9. CASE InsertRefund
  BY <1>9 DEF InsertRefund
<1>10. CASE RefundSucceeded
  BY <1>10 DEF RefundSucceeded
<1>11. CASE FetchForInvoice
  BY <1>11 DEF FetchForInvoice
<1>12. CASE StoreInvoice
  BY <1>12 DEF StoreInvoice
<1>13. CASE InvoiceFails
  BY <1>13 DEF InvoiceFails
<1>14. CASE InsertInvoice
  <2>1. held' \in [Tables -> [Rows -> SUBSET Raw]]
    BY <1>14, ZenonT(30) DEF InsertInvoice
  <2> QED
    BY <1>14, <2>1 DEF InsertInvoice
<1>15. CASE ClaimJob
  <2>1. attempts' \in 0 .. MaxAttempts
    BY <1>15 DEF ClaimJob, Tries
  <2>2. copy' \in [Writers -> SUBSET Raw] /\ carried' \in SUBSET Writers
    BY <1>15 DEF ClaimJob
  <2> QED
    BY <1>15, <2>1, <2>2 DEF ClaimJob
<1>16. CASE LookUpReceipt
  BY <1>16 DEF LookUpReceipt
<1>17. CASE StoreReceipt
  BY <1>17, SMTT(40) DEF StoreReceipt
<1>18. CASE CompleteJob
  BY <1>18 DEF CompleteJob
<1>19. CASE WorkerDies
  BY <1>19 DEF WorkerDies, AtJob, Orphan
<1>20. CASE JobFails
  <2>1. /\ held' \in [Tables -> [Rows -> SUBSET Raw]]
        /\ job' \in {"retry", "dead"} /\ escaped' \in SUBSET Writers
    BY <1>20, SMTT(40) DEF JobFails, Orphan
  <2> QED
    BY <1>20, <2>1 DEF JobFails, AtJob
<1>21. CASE LookUpProjection
  BY <1>21 DEF LookUpProjection
<1>22. CASE IndexDocument
  BY <1>22, SMTT(40) DEF IndexDocument
<1>23. CASE CacheActivity
  BY <1>23, SMTT(40) DEF CacheActivity
<1>24. CASE RecordAnalytics
  BY <1>24, SMTT(40) DEF RecordAnalytics
<1>25. CASE ProjectionFails
  BY <1>25 DEF ProjectionFails
<1>26. CASE RecordDelivery
  BY <1>26, ZenonT(30) DEF RecordDelivery
<1>27. CASE DeliveryRollsBack
  BY <1>27 DEF DeliveryRollsBack
<1>28. CASE QuiesceSubject
  BY <1>28 DEF QuiesceSubject, PastLook
<1>29. CASE AnonymizeFinancialRecords
  BY <1>29 DEF AnonymizeFinancialRecords
<1>30. CASE SanitizeObjectStorage
  BY <1>30 DEF SanitizeObjectStorage
<1>31. CASE EraseNotificationProvider
  <2>1. held' \in [Tables -> [Rows -> SUBSET Raw]]
    BY <1>31, SMTT(40) DEF EraseNotificationProvider
  <2> QED
    BY <1>31, <2>1 DEF EraseNotificationProvider
<1>32. CASE SanitizeEvents
  BY <1>32 DEF SanitizeEvents
<1>33. CASE SanitizeRecords
  BY <1>33 DEF SanitizeRecords
<1>34. CASE DeleteNotifications
  BY <1>34 DEF DeleteNotifications
<1>35. CASE EraseCache
  BY <1>35 DEF EraseCache
<1>36. CASE EraseSearch
  BY <1>36 DEF EraseSearch
<1>37. CASE EraseCustomerRecords
  BY <1>37 DEF EraseCustomerRecords
<1>38. CASE VerifyCompletion
  BY <1>38 DEF VerifyCompletion
<1>39. ASSUME NEW e \in Rows, Publish(e) PROVE TypeOK'
  BY <1>39 DEF Publish
<1>40. ASSUME NEW e \in Rows, ReceiveProjection(e) PROVE TypeOK'
  BY <1>40 DEF ReceiveProjection
<1>41. ASSUME NEW e \in Rows, LookUpDelivery(e) PROVE TypeOK'
  BY <1>41 DEF LookUpDelivery
<1>42. ASSUME NEW e \in Rows, Deliver(e) PROVE TypeOK'
  BY <1>42, SMTT(40) DEF Deliver
<1>43. CASE UNCHANGED vars
  BY <1>43 DEF vars
<1> QED
  BY <1>1, <1>2, <1>3, <1>4, <1>5, <1>6, <1>7, <1>8, <1>9, <1>10, <1>11, <1>12, <1>13, <1>14,
     <1>15, <1>16, <1>17, <1>18, <1>19, <1>20, <1>21, <1>22, <1>23, <1>24, <1>25, <1>26, <1>27,
     <1>28, <1>29, <1>30, <1>31, <1>32, <1>33, <1>34, <1>35, <1>36, <1>37, <1>38, <1>39, <1>40,
     <1>41, <1>42, <1>43 DEF Next, Requests, Jobs, Consume, Erase

(* JobFails and ClaimJob count the attempts of a job. *)
LEMMA TriesStep ==
  ASSUME TypeOK, Tries, [Next]_vars
  PROVE  Tries'
<1> USE DataAssumption
<1> USE DEF TypeOK, Tries, AtJob, Goto, Carry, Finish, Return, Put, Project, Advance, Enter,
            queues, writers, past, Writers, AllFlows, Consumers
<1>1. CASE FetchCustomer \/ EnsureProviderCustomer
  BY <1>1 DEF FetchCustomer, EnsureProviderCustomer
<1>2. CASE InsertPayment
  BY <1>2 DEF InsertPayment
<1>3. CASE CallProcessor \/ SubmitPayment
  BY <1>3 DEF CallProcessor, SubmitPayment
<1>4. CASE PaymentSucceeded
  BY <1>4 DEF PaymentSucceeded
<1>5. CASE ReadPayment \/ LookUpRefunded \/ InsertRefund \/ RefundSucceeded
  BY <1>5 DEF ReadPayment, LookUpRefunded, InsertRefund, RefundSucceeded
<1>6. CASE FetchForInvoice \/ StoreInvoice \/ InvoiceFails
  BY <1>6 DEF FetchForInvoice, StoreInvoice, InvoiceFails
<1>7. CASE InsertInvoice
  BY <1>7 DEF InsertInvoice
<1>8. CASE ClaimJob \/ LookUpReceipt \/ StoreReceipt
  BY <1>8 DEF ClaimJob, LookUpReceipt, StoreReceipt
<1>9. CASE CompleteJob
  BY <1>9 DEF CompleteJob
<1>10. CASE JobFails \/ WorkerDies
  BY <1>10 DEF JobFails, WorkerDies
<1>11. CASE LookUpProjection
  BY <1>11 DEF LookUpProjection
<1>12. CASE IndexDocument \/ CacheActivity \/ RecordAnalytics \/ ProjectionFails
  BY <1>12 DEF IndexDocument, CacheActivity, RecordAnalytics, ProjectionFails
<1>13. CASE RecordDelivery \/ DeliveryRollsBack
  BY <1>13 DEF RecordDelivery, DeliveryRollsBack
<1>14. CASE QuiesceSubject
  BY <1>14 DEF QuiesceSubject
<1>15. CASE AnonymizeFinancialRecords \/ SanitizeObjectStorage
  BY <1>15 DEF AnonymizeFinancialRecords, SanitizeObjectStorage
<1>16. CASE EraseNotificationProvider
  BY <1>16 DEF EraseNotificationProvider
<1>17. CASE SanitizeEvents \/ SanitizeRecords \/ DeleteNotifications
  BY <1>17 DEF SanitizeEvents, SanitizeRecords, DeleteNotifications
<1>18. CASE EraseCache \/ EraseSearch
  BY <1>18 DEF EraseCache, EraseSearch
<1>19. CASE EraseCustomerRecords \/ VerifyCompletion
  BY <1>19 DEF EraseCustomerRecords, VerifyCompletion
<1>20. ASSUME NEW e \in Rows, Publish(e) \/ ReceiveProjection(e) \/ LookUpDelivery(e) \/ Deliver(e)
      PROVE  Tries'
  BY <1>20 DEF Publish, ReceiveProjection, LookUpDelivery, Deliver
<1>21. CASE UNCHANGED vars
  BY <1>21 DEF vars
<1> QED
  BY <1>1, <1>2, <1>3, <1>4, <1>5, <1>6, <1>7, <1>8, <1>9, <1>10, <1>11, <1>12, <1>13, <1>14,
     <1>15, <1>16, <1>17, <1>18, <1>19, <1>20, <1>21 DEF Next, Requests, Jobs, Consume, Erase

(* What a request or a job has in memory. *)
LEMMA ShapeStep ==
  ASSUME TypeOK, Tries, Shape, [Next]_vars
  PROVE  Shape'
<1> USE DEF TypeOK, Shape, AtJob, Goto, Carry, Finish, Return, Put, Project, Advance, Enter,
            Available, queues, writers, past, Tables, Rows, Raw, Writers, AllFlows, Consumers,
            PastQuiesce, PastFinancial, PastObjects, PastProvider, PastEvents, PastRecords,
            PastCache, PastSearch, PastCustomer, Nothing
<1>1. CASE FetchCustomer \/ EnsureProviderCustomer
  BY <1>1 DEF FetchCustomer, EnsureProviderCustomer
<1>2. CASE InsertPayment
  BY <1>2, SMTT(40) DEF InsertPayment
<1>3. CASE CallProcessor \/ SubmitPayment
  BY <1>3 DEF CallProcessor, SubmitPayment
<1>4. CASE PaymentSucceeded
  BY <1>4 DEF PaymentSucceeded
<1>5. CASE ReadPayment \/ LookUpRefunded \/ InsertRefund \/ RefundSucceeded
  BY <1>5 DEF ReadPayment, LookUpRefunded, InsertRefund, RefundSucceeded
<1>6. CASE FetchForInvoice \/ StoreInvoice \/ InvoiceFails
  BY <1>6 DEF FetchForInvoice, StoreInvoice, InvoiceFails
<1>7. CASE InsertInvoice
  BY <1>7, SMTT(40) DEF InsertInvoice
<1>8. CASE ClaimJob \/ LookUpReceipt \/ StoreReceipt
  BY <1>8 DEF ClaimJob, LookUpReceipt, StoreReceipt
<1>9. CASE CompleteJob
  BY <1>9 DEF CompleteJob
<1>10. CASE JobFails \/ WorkerDies
  BY <1>10 DEF JobFails, WorkerDies
<1>11. CASE LookUpProjection
  BY <1>11 DEF LookUpProjection
<1>12. CASE IndexDocument \/ CacheActivity \/ RecordAnalytics \/ ProjectionFails
  BY <1>12 DEF IndexDocument, CacheActivity, RecordAnalytics, ProjectionFails
<1>13. CASE RecordDelivery \/ DeliveryRollsBack
  BY <1>13 DEF RecordDelivery, DeliveryRollsBack
<1>14. CASE QuiesceSubject
  BY <1>14 DEF QuiesceSubject
<1>15. CASE AnonymizeFinancialRecords \/ SanitizeObjectStorage
  BY <1>15 DEF AnonymizeFinancialRecords, SanitizeObjectStorage
<1>16. CASE EraseNotificationProvider
  BY <1>16 DEF EraseNotificationProvider
<1>17. CASE SanitizeEvents \/ SanitizeRecords \/ DeleteNotifications
  BY <1>17 DEF SanitizeEvents, SanitizeRecords, DeleteNotifications
<1>18. CASE EraseCache \/ EraseSearch
  BY <1>18 DEF EraseCache, EraseSearch
<1>19. CASE EraseCustomerRecords
  BY <1>19 DEF EraseCustomerRecords
<1>20. CASE VerifyCompletion
  BY <1>20 DEF VerifyCompletion
<1>21. ASSUME NEW e \in Rows, Publish(e) \/ ReceiveProjection(e) \/ LookUpDelivery(e) \/ Deliver(e)
      PROVE  Shape'
  BY <1>21 DEF Publish, ReceiveProjection, LookUpDelivery, Deliver
<1>22. CASE UNCHANGED vars
  BY <1>22 DEF vars
<1> QED
  BY <1>1, <1>2, <1>3, <1>4, <1>5, <1>6, <1>7, <1>8, <1>9, <1>10, <1>11, <1>12, <1>13, <1>14,
     <1>15, <1>16, <1>17, <1>18, <1>19, <1>20, <1>21, <1>22 DEF Next, Requests, Jobs, Consume,
     Erase

(* The histories only grow. *)
LEMMA HistoryGrows ==
  ASSUME [Next]_vars
  PROVE  escaped \subseteq escaped' /\ carried \subseteq carried'
<1> USE DEF Enter, Project, queues, writers, past
<1>1. CASE FetchCustomer \/ EnsureProviderCustomer
  BY <1>1 DEF FetchCustomer, EnsureProviderCustomer
<1>2. CASE InsertPayment
  BY <1>2 DEF InsertPayment
<1>3. CASE CallProcessor \/ SubmitPayment
  BY <1>3 DEF CallProcessor, SubmitPayment
<1>4. CASE PaymentSucceeded
  BY <1>4 DEF PaymentSucceeded
<1>5. CASE ReadPayment \/ LookUpRefunded \/ InsertRefund \/ RefundSucceeded
  BY <1>5 DEF ReadPayment, LookUpRefunded, InsertRefund, RefundSucceeded
<1>6. CASE FetchForInvoice \/ StoreInvoice \/ InvoiceFails
  BY <1>6 DEF FetchForInvoice, StoreInvoice, InvoiceFails
<1>7. CASE InsertInvoice
  BY <1>7 DEF InsertInvoice
<1>8. CASE ClaimJob \/ LookUpReceipt \/ StoreReceipt
  BY <1>8 DEF ClaimJob, LookUpReceipt, StoreReceipt
<1>9. CASE CompleteJob
  BY <1>9 DEF CompleteJob
<1>10. CASE JobFails \/ WorkerDies
  BY <1>10 DEF JobFails, WorkerDies
<1>11. CASE LookUpProjection
  BY <1>11 DEF LookUpProjection
<1>12. CASE IndexDocument \/ CacheActivity \/ RecordAnalytics \/ ProjectionFails
  BY <1>12 DEF IndexDocument, CacheActivity, RecordAnalytics, ProjectionFails
<1>13. CASE RecordDelivery \/ DeliveryRollsBack
  BY <1>13 DEF RecordDelivery, DeliveryRollsBack
<1>14. CASE QuiesceSubject
  BY <1>14 DEF QuiesceSubject
<1>15. CASE AnonymizeFinancialRecords \/ SanitizeObjectStorage
  BY <1>15 DEF AnonymizeFinancialRecords, SanitizeObjectStorage
<1>16. CASE EraseNotificationProvider
  BY <1>16 DEF EraseNotificationProvider
<1>17. CASE SanitizeEvents \/ SanitizeRecords \/ DeleteNotifications
  BY <1>17 DEF SanitizeEvents, SanitizeRecords, DeleteNotifications
<1>18. CASE EraseCache \/ EraseSearch
  BY <1>18 DEF EraseCache, EraseSearch
<1>19. CASE EraseCustomerRecords \/ VerifyCompletion
  BY <1>19 DEF EraseCustomerRecords, VerifyCompletion
<1>20. ASSUME NEW e \in Rows, Publish(e) \/ ReceiveProjection(e) \/ LookUpDelivery(e) \/ Deliver(e)
      PROVE  escaped \subseteq escaped' /\ carried \subseteq carried'
  BY <1>20 DEF Publish, ReceiveProjection, LookUpDelivery, Deliver
<1>21. CASE UNCHANGED vars
  BY <1>21 DEF vars
<1> QED
  BY <1>1, <1>2, <1>3, <1>4, <1>5, <1>6, <1>7, <1>8, <1>9, <1>10, <1>11, <1>12, <1>13, <1>14,
     <1>15, <1>16, <1>17, <1>18, <1>19, <1>20, <1>21 DEF Next, Requests, Jobs, Consume, Erase

(* No store but refunds and the mailbox comes by an address without the id. *)
LEMMA RowsStep ==
  ASSUME held \in [Tables -> [Rows -> SUBSET Raw]], copy \in [Writers -> SUBSET Raw],
         WholeRows, WholeCopies, Empty("refunds") \/ "uuid" \in held["payments"]["intent"],
         [Next]_vars, NEW t \in Tables \ {"refunds", "mail"}, NEW r \in Rows
  PROVE  held'[t][r] # {"pii"}
<1> USE DEF WholeRows, WholeCopies, Empty, Put, Project, Advance, queues, writers, past, Tables,
            Rows, Raw, Writers, AllFlows, Consumers, Nothing, ByCustomer
<1>1. CASE FetchCustomer
  BY <1>1 DEF FetchCustomer
<1>2. CASE EnsureProviderCustomer
  BY <1>2, SMTT(40) DEF EnsureProviderCustomer
<1>3. CASE InsertPayment
  BY <1>3, SMTT(40) DEF InsertPayment
<1>4. CASE CallProcessor
  BY <1>4 DEF CallProcessor
<1>5. CASE SubmitPayment
  BY <1>5, SMTT(40) DEF SubmitPayment
<1>6. CASE PaymentSucceeded
  BY <1>6 DEF PaymentSucceeded
<1>7. CASE ReadPayment \/ LookUpRefunded \/ InsertRefund \/ RefundSucceeded
  BY <1>7 DEF ReadPayment, LookUpRefunded, InsertRefund, RefundSucceeded
<1>8. CASE FetchForInvoice \/ StoreInvoice \/ InvoiceFails
  BY <1>8 DEF FetchForInvoice, StoreInvoice, InvoiceFails
<1>9. CASE InsertInvoice
  BY <1>9, SMTT(40) DEF InsertInvoice
<1>10. CASE ClaimJob
  BY <1>10 DEF ClaimJob
<1>11. CASE LookUpReceipt
  BY <1>11 DEF LookUpReceipt
<1>12. CASE StoreReceipt
  BY <1>12, SMTT(40) DEF StoreReceipt
<1>13. CASE CompleteJob
  BY <1>13 DEF CompleteJob
<1>14. CASE JobFails \/ WorkerDies
  BY <1>14 DEF JobFails, WorkerDies
<1>15. CASE LookUpProjection
  <2>1. CASE Suppressed(copy["projection"])
    <3>1. held' = [held EXCEPT !["cache"] = ByCustomer("cache"), !["search"] = ByCustomer("search")]
      BY <1>15, <2>1 DEF LookUpProjection
    <3>2. held'[t][r] = held[t][r] \/ held'[t][r] = {}
      BY <3>1
    <3> QED
      BY <3>2
  <2>2. CASE ~Suppressed(copy["projection"])
    BY <1>15, <2>2 DEF LookUpProjection
  <2> QED
    BY <2>1, <2>2
<1>16. CASE IndexDocument \/ CacheActivity \/ RecordAnalytics \/ ProjectionFails
  BY <1>16 DEF IndexDocument, CacheActivity, RecordAnalytics, ProjectionFails
<1>17. CASE RecordDelivery \/ DeliveryRollsBack
  BY <1>17 DEF RecordDelivery, DeliveryRollsBack
<1>18. CASE QuiesceSubject
  BY <1>18 DEF QuiesceSubject
<1>19. CASE AnonymizeFinancialRecords
  BY <1>19 DEF AnonymizeFinancialRecords
<1>20. CASE SanitizeObjectStorage
  BY <1>20 DEF SanitizeObjectStorage
<1>21. CASE EraseNotificationProvider
  BY <1>21 DEF EraseNotificationProvider
<1>22. CASE SanitizeEvents
  BY <1>22 DEF SanitizeEvents
<1>23. CASE SanitizeRecords
  BY <1>23 DEF SanitizeRecords
<1>24. CASE DeleteNotifications
  BY <1>24 DEF DeleteNotifications
<1>25. CASE EraseCache \/ EraseSearch
  BY <1>25 DEF EraseCache, EraseSearch
<1>26. CASE EraseCustomerRecords
  BY <1>26 DEF EraseCustomerRecords
<1>27. CASE VerifyCompletion
  BY <1>27 DEF VerifyCompletion
<1>28. ASSUME NEW e \in Rows, Publish(e) \/ ReceiveProjection(e) \/ LookUpDelivery(e)
      PROVE  held'[t][r] # {"pii"}
  BY <1>28 DEF Publish, ReceiveProjection, LookUpDelivery
<1>29. ASSUME NEW e \in Rows, Deliver(e) PROVE held'[t][r] # {"pii"}
  <2>1. CASE Suppressed(held["letters"][e])
    <3>1. held' = [held EXCEPT !["letters"][e] = {}]
      BY <1>29, <2>1 DEF Deliver
    <3> QED
      BY <3>1
  <2>2. CASE ~Suppressed(held["letters"][e])
    BY <1>29, <2>2 DEF Deliver
  <2> QED
    BY <2>1, <2>2
<1>30. CASE UNCHANGED vars
  BY <1>30 DEF vars
<1> QED
  BY <1>1, <1>2, <1>3, <1>4, <1>5, <1>6, <1>7, <1>8, <1>9, <1>10, <1>11, <1>12, <1>13, <1>14,
     <1>15, <1>16, <1>17, <1>18, <1>19, <1>20, <1>21, <1>22, <1>23, <1>24, <1>25, <1>26, <1>27,
     <1>28, <1>29, <1>30 DEF Next, Requests, Jobs, Consume, Erase

(* Nor does a writer but the refund. *)
LEMMA CopiesStep ==
  ASSUME held \in [Tables -> [Rows -> SUBSET Raw]], copy \in [Writers -> SUBSET Raw],
         WholeRows, WholeCopies, [Next]_vars, NEW w \in Writers \ {"refund"}
  PROVE  copy'[w] # {"pii"}
<1> USE DEF WholeRows, WholeCopies, Carry, Finish, Return, Project, Advance, queues, writers,
            past, Tables, Rows, Raw, Writers, AllFlows, Consumers
<1>1. CASE FetchCustomer
  BY <1>1 DEF FetchCustomer
<1>2. CASE EnsureProviderCustomer
  BY <1>2 DEF EnsureProviderCustomer
<1>3. CASE InsertPayment
  BY <1>3 DEF InsertPayment
<1>4. CASE CallProcessor \/ SubmitPayment
  BY <1>4 DEF CallProcessor, SubmitPayment
<1>5. CASE PaymentSucceeded
  BY <1>5 DEF PaymentSucceeded
<1>6. CASE ReadPayment \/ LookUpRefunded \/ InsertRefund \/ RefundSucceeded
  BY <1>6 DEF ReadPayment, LookUpRefunded, InsertRefund, RefundSucceeded
<1>7. CASE FetchForInvoice
  BY <1>7 DEF FetchForInvoice
<1>8. CASE StoreInvoice
  BY <1>8 DEF StoreInvoice
<1>9. CASE InvoiceFails
  BY <1>9 DEF InvoiceFails
<1>10. CASE InsertInvoice
  BY <1>10 DEF InsertInvoice
<1>11. CASE ClaimJob \/ LookUpReceipt \/ StoreReceipt
  BY <1>11 DEF ClaimJob, LookUpReceipt, StoreReceipt
<1>12. CASE CompleteJob
  BY <1>12 DEF CompleteJob
<1>13. CASE JobFails \/ WorkerDies
  BY <1>13 DEF JobFails, WorkerDies
<1>14. CASE LookUpProjection
  BY <1>14 DEF LookUpProjection
<1>15. CASE IndexDocument \/ CacheActivity \/ RecordAnalytics \/ ProjectionFails
  BY <1>15 DEF IndexDocument, CacheActivity, RecordAnalytics, ProjectionFails
<1>16. CASE RecordDelivery \/ DeliveryRollsBack
  BY <1>16 DEF RecordDelivery, DeliveryRollsBack
<1>17. CASE QuiesceSubject
  BY <1>17 DEF QuiesceSubject
<1>18. CASE AnonymizeFinancialRecords \/ SanitizeObjectStorage
  BY <1>18 DEF AnonymizeFinancialRecords, SanitizeObjectStorage
<1>19. CASE EraseNotificationProvider
  BY <1>19 DEF EraseNotificationProvider
<1>20. CASE SanitizeEvents \/ SanitizeRecords \/ DeleteNotifications
  BY <1>20 DEF SanitizeEvents, SanitizeRecords, DeleteNotifications
<1>21. CASE EraseCache \/ EraseSearch
  BY <1>21 DEF EraseCache, EraseSearch
<1>22. CASE EraseCustomerRecords \/ VerifyCompletion
  BY <1>22 DEF EraseCustomerRecords, VerifyCompletion
<1>23. ASSUME NEW e \in Rows, Publish(e) \/ ReceiveProjection(e) \/ LookUpDelivery(e) \/ Deliver(e)
      PROVE  copy'[w] # {"pii"}
  BY <1>23 DEF Publish, ReceiveProjection, LookUpDelivery, Deliver
<1>24. CASE UNCHANGED vars
  BY <1>24 DEF vars
<1> QED
  BY <1>1, <1>2, <1>3, <1>4, <1>5, <1>6, <1>7, <1>8, <1>9, <1>10, <1>11, <1>12, <1>13, <1>14,
     <1>15, <1>16, <1>17, <1>18, <1>19, <1>20, <1>21, <1>22, <1>23, <1>24 DEF Next, Requests,
     Jobs, Consume, Erase

(* A refund is inserted, and anonymized, together with a payment. *)
LEMMA RefundStep ==
  ASSUME TypeOK, Tries, Shape, RefundsHavePayment, [Next]_vars, "refund" \notin escaped'
  PROVE  RefundsHavePayment'
<1> USE DEF TypeOK, Tries, Shape, RefundsHavePayment, PastQuiesce, Empty, Goto, Carry, Finish,
            Return, Put, Project, Advance, queues, writers, past, Tables, Rows, Raw, Writers,
            AllFlows, Consumers, Nothing
<1>1. CASE FetchCustomer \/ EnsureProviderCustomer
  BY <1>1 DEF FetchCustomer, EnsureProviderCustomer
<1>2. CASE InsertPayment
  BY <1>2 DEF InsertPayment
<1>3. CASE CallProcessor \/ SubmitPayment
  BY <1>3 DEF CallProcessor, SubmitPayment
<1>4. CASE PaymentSucceeded
  BY <1>4 DEF PaymentSucceeded
<1>5. CASE ReadPayment \/ InsertRefund \/ RefundSucceeded
  BY <1>5 DEF ReadPayment, InsertRefund, RefundSucceeded
<1>6. CASE LookUpRefunded
  <2>1. /\ pc["refund"] = "read" /\ pc' = [pc EXCEPT !["refund"] = "looked"]
        /\ tombstone' = tombstone
    BY <1>6 DEF LookUpRefunded
  <2>2. tombstone => copy'["refund"] = {}
    BY <1>6 DEF LookUpRefunded, SuppressedByAnyId
  <2> QED
    BY <1>6, <2>1, <2>2 DEF LookUpRefunded
<1>7. CASE FetchForInvoice \/ StoreInvoice \/ InvoiceFails
  BY <1>7 DEF FetchForInvoice, StoreInvoice, InvoiceFails
<1>8. CASE InsertInvoice
  BY <1>8 DEF InsertInvoice
<1>9. CASE ClaimJob \/ LookUpReceipt \/ StoreReceipt
  BY <1>9 DEF ClaimJob, LookUpReceipt, StoreReceipt
<1>10. CASE CompleteJob
  BY <1>10 DEF CompleteJob
<1>11. CASE JobFails \/ WorkerDies
  BY <1>11 DEF JobFails, WorkerDies
<1>12. CASE LookUpProjection
  BY <1>12 DEF LookUpProjection
<1>13. CASE IndexDocument \/ CacheActivity \/ RecordAnalytics \/ ProjectionFails
  BY <1>13 DEF IndexDocument, CacheActivity, RecordAnalytics, ProjectionFails
<1>14. CASE RecordDelivery \/ DeliveryRollsBack
  BY <1>14 DEF RecordDelivery, DeliveryRollsBack
<1>15. CASE QuiesceSubject
  BY <1>15 DEF QuiesceSubject, PastLook
<1>16. CASE AnonymizeFinancialRecords \/ SanitizeObjectStorage
  BY <1>16 DEF AnonymizeFinancialRecords, SanitizeObjectStorage
<1>17. CASE EraseNotificationProvider
  BY <1>17 DEF EraseNotificationProvider
<1>18. CASE SanitizeEvents \/ SanitizeRecords \/ DeleteNotifications
  BY <1>18 DEF SanitizeEvents, SanitizeRecords, DeleteNotifications
<1>19. CASE EraseCache \/ EraseSearch
  BY <1>19 DEF EraseCache, EraseSearch
<1>20. CASE EraseCustomerRecords \/ VerifyCompletion
  BY <1>20 DEF EraseCustomerRecords, VerifyCompletion
<1>21. ASSUME NEW e \in Rows, Publish(e) \/ ReceiveProjection(e) \/ LookUpDelivery(e) \/ Deliver(e)
      PROVE  RefundsHavePayment'
  BY <1>21 DEF Publish, ReceiveProjection, LookUpDelivery, Deliver
<1>22. CASE UNCHANGED vars
  BY <1>22 DEF vars
<1> QED
  BY <1>1, <1>2, <1>3, <1>4, <1>5, <1>6, <1>7, <1>8, <1>9, <1>10, <1>11, <1>12, <1>13, <1>14,
     <1>15, <1>16, <1>17, <1>18, <1>19, <1>20, <1>21, <1>22 DEF Next, Requests, Jobs, Consume,
     Erase

(* A look after the tombstone finds it, as what is looked up has the id. *)
LEMMA LookStep ==
  ASSUME TypeOK, Shape, WholeRows, WholeCopies, RefundsHavePayment, NothingPastLook,
         [Next]_vars, escaped' = {}
  PROVE  NothingPastLook'
<1> USE DEF WholeRows, WholeCopies, RefundsHavePayment, NothingPastLook, PastLook, Suppressed,
            SuppressedByAnyId, Available, TypeOK, Shape, PastQuiesce, PastFinancial, PastObjects,
            PastProvider, PastEvents, PastRecords, PastCache, PastSearch, PastCustomer, Goto,
            Carry, Finish, Return, Put, Project, Advance, queues, writers, past, Tables, Rows,
            Raw, Writers, AllFlows, Consumers, Nothing
<1>1. CASE FetchCustomer \/ EnsureProviderCustomer
  BY <1>1 DEF FetchCustomer, EnsureProviderCustomer
<1>2. CASE InsertPayment
  BY <1>2 DEF InsertPayment
<1>3. CASE CallProcessor
  BY <1>3 DEF CallProcessor
<1>4. CASE SubmitPayment
  BY <1>4 DEF SubmitPayment
<1>5. CASE PaymentSucceeded
  BY <1>5 DEF PaymentSucceeded
<1>6. CASE ReadPayment
  BY <1>6 DEF ReadPayment
<1>7. CASE LookUpRefunded
  BY <1>7 DEF LookUpRefunded
<1>8. CASE InsertRefund
  BY <1>8 DEF InsertRefund
<1>9. CASE RefundSucceeded
  BY <1>9 DEF RefundSucceeded
<1>10. CASE FetchForInvoice
  BY <1>10 DEF FetchForInvoice
<1>11. CASE StoreInvoice
  BY <1>11 DEF StoreInvoice
<1>12. CASE InvoiceFails
  BY <1>12 DEF InvoiceFails
<1>13. CASE InsertInvoice
  BY <1>13 DEF InsertInvoice
<1>14. CASE ClaimJob
  BY <1>14 DEF ClaimJob
<1>15. CASE LookUpReceipt
  BY <1>15 DEF LookUpReceipt
<1>16. CASE StoreReceipt
  BY <1>16 DEF StoreReceipt
<1>17. CASE CompleteJob
  BY <1>17 DEF CompleteJob
<1>18. CASE JobFails
  BY <1>18 DEF JobFails
<1>19. CASE WorkerDies
  BY <1>19 DEF WorkerDies
<1>20. CASE LookUpProjection
  BY <1>20 DEF LookUpProjection
<1>21. CASE IndexDocument
  BY <1>21 DEF IndexDocument
<1>22. CASE CacheActivity
  BY <1>22 DEF CacheActivity
<1>23. CASE RecordAnalytics
  BY <1>23 DEF RecordAnalytics
<1>24. CASE ProjectionFails
  BY <1>24 DEF ProjectionFails
<1>25. CASE RecordDelivery
  BY <1>25 DEF RecordDelivery
<1>26. CASE DeliveryRollsBack
  BY <1>26 DEF DeliveryRollsBack
<1>27. CASE QuiesceSubject
  BY <1>27 DEF QuiesceSubject
<1>28. CASE AnonymizeFinancialRecords \/ SanitizeObjectStorage
  BY <1>28 DEF AnonymizeFinancialRecords, SanitizeObjectStorage
<1>29. CASE EraseNotificationProvider
  BY <1>29 DEF EraseNotificationProvider
<1>30. CASE SanitizeEvents \/ SanitizeRecords \/ DeleteNotifications
  BY <1>30 DEF SanitizeEvents, SanitizeRecords, DeleteNotifications
<1>31. CASE EraseCache \/ EraseSearch
  BY <1>31 DEF EraseCache, EraseSearch
<1>32. CASE EraseCustomerRecords \/ VerifyCompletion
  BY <1>32 DEF EraseCustomerRecords, VerifyCompletion
<1>33. ASSUME NEW e \in Rows, Publish(e) PROVE NothingPastLook'
  BY <1>33 DEF Publish
<1>34. ASSUME NEW e \in Rows, ReceiveProjection(e) PROVE NothingPastLook'
  BY <1>34 DEF ReceiveProjection
<1>35. ASSUME NEW e \in Rows, LookUpDelivery(e) PROVE NothingPastLook'
  BY <1>35 DEF LookUpDelivery
<1>36. ASSUME NEW e \in Rows, Deliver(e) PROVE NothingPastLook'
  BY <1>36 DEF Deliver
<1>37. CASE UNCHANGED vars
  BY <1>37 DEF vars
<1> QED
  BY <1>1, <1>2, <1>3, <1>4, <1>5, <1>6, <1>7, <1>8, <1>9, <1>10, <1>11, <1>12, <1>13, <1>14,
     <1>15, <1>16, <1>17, <1>18, <1>19, <1>20, <1>21, <1>22, <1>23, <1>24, <1>25, <1>26, <1>27,
     <1>28, <1>29, <1>30, <1>31, <1>32, <1>33, <1>34, <1>35, <1>36, <1>37 DEF Next, Requests,
     Jobs, Consume, Erase

(* What CompleteJob writes. *)
LEMMA JobWrites ==
  ASSUME TypeOK, Shape, CompleteJob
  PROVE  /\ pc["receipt"] = "stored"
              => held'["manifests"]["receipt"] = copy["receipt"] \cap {"uuid"}
         /\ held'["outbox"]["receipt"] = copy["receipt"] \cap {"uuid"}
         /\ copy["receipt"] = {} => held'["manifests"]["receipt"] = {}
         /\ \A t \in Tables, r \in Rows :
               held'[t][r] # held[t][r] => t \in {"manifests", "outbox"} /\ r = "receipt"
         /\ pc["receipt"] \in {"stored", "redacted"}
         /\ UNCHANGED <<at, escaped, carried>>
         /\ pc' = [pc EXCEPT !["receipt"] = "done"] /\ copy' = [copy EXCEPT !["receipt"] = {}]
<1> DEFINE id == copy["receipt"] \cap {"uuid"}
<1> DEFINE listed == IF pc["receipt"] = "redacted" THEN {} ELSE id
<1>1. held' = [held EXCEPT !["manifests"]["receipt"] = listed, !["outbox"]["receipt"] = id]
  BY DEF CompleteJob
<1>2. pc["receipt"] \in {"stored", "redacted"}
  BY DEF CompleteJob
<1>3. pc' = [pc EXCEPT !["receipt"] = "done"] /\ copy' = [copy EXCEPT !["receipt"] = {}]
  BY DEF CompleteJob, Finish, Goto, Carry
<1>4. UNCHANGED <<at, escaped, carried>>
  BY DEF CompleteJob, past
<1>5. (pc["receipt"] = "stored" => listed = id) /\ (copy["receipt"] = {} => listed = {})
  OBVIOUS
<1> HIDE DEF id, listed
<1>6. ASSUME NEW t \in Tables, NEW r \in Rows
      PROVE  held'[t][r] = IF r # "receipt" THEN held[t][r]
                           ELSE IF t = "outbox" THEN id
                           ELSE IF t = "manifests" THEN listed ELSE held[t][r]
  <2>1. held \in [Tables -> [Rows -> SUBSET Raw]]
    BY DEF TypeOK
  <2> QED
    BY <1>1, <2>1, Zenon
<1>7. {"manifests", "outbox"} \subseteq Tables /\ "receipt" \in Rows
  BY DEF Tables, Rows
<1>8. held'["outbox"]["receipt"] = id /\ held'["manifests"]["receipt"] = listed
  BY <1>6, <1>7
<1>9. ASSUME NEW t \in Tables, NEW r \in Rows, held'[t][r] # held[t][r]
      PROVE  t \in {"manifests", "outbox"} /\ r = "receipt"
  BY <1>6, <1>9
<1> QED
  BY <1>2, <1>3, <1>4, <1>5, <1>8, <1>9 DEF id

(* What InsertInvoice writes. *)
LEMMA InvoiceWrites ==
  ASSUME TypeOK, Shape, InsertInvoice
  PROVE  /\ held'["invoices"]["issued"] = Raw /\ held'["manifests"]["issued"] = {"uuid"}
         /\ \A t \in Tables, r \in Rows :
               held'[t][r] # held[t][r] => t \in {"invoices", "manifests", "outbox"} /\ r = "issued"
         /\ UNCHANGED <<at, escaped, carried, tombstone, flows>> /\ pc["invoice"] = "stored"
         /\ pc' = [pc EXCEPT !["invoice"] = "done"] /\ copy' = [copy EXCEPT !["invoice"] = {}]
<1>1. pc["invoice"] = "stored" /\ copy["invoice"] = Raw
  BY DEF InsertInvoice, Shape
<1>2. held' = [held EXCEPT !["invoices"]["issued"] = Raw, !["manifests"]["issued"] = {"uuid"},
                          !["outbox"]["issued"] = Raw]
  BY <1>1 DEF InsertInvoice
<1>3. ASSUME NEW t \in Tables, NEW r \in Rows
      PROVE  held'[t][r] = IF r # "issued" THEN held[t][r]
                           ELSE IF t \in {"invoices", "outbox"} THEN Raw
                           ELSE IF t = "manifests" THEN {"uuid"} ELSE held[t][r]
  <2>1. held \in [Tables -> [Rows -> SUBSET Raw]]
    BY DEF TypeOK
  <2> QED
    BY <1>2, <2>1, Zenon
<1>4. {"invoices", "manifests", "outbox"} \subseteq Tables /\ "issued" \in Rows
  BY DEF Tables, Rows
<1>5. UNCHANGED <<at, escaped, carried, tombstone, flows>>
  BY DEF InsertInvoice, past
<1>6. pc' = [pc EXCEPT !["invoice"] = "done"] /\ copy' = [copy EXCEPT !["invoice"] = {}]
  BY DEF InsertInvoice, Finish, Goto, Carry
<1>7. held'["invoices"]["issued"] = Raw /\ held'["manifests"]["issued"] = {"uuid"}
  BY <1>3, <1>4
<1>8. ASSUME NEW t \in Tables, NEW r \in Rows, held'[t][r] # held[t][r]
      PROVE  t \in {"invoices", "manifests", "outbox"} /\ r = "issued"
  BY <1>3, <1>8
<1> QED
  BY <1>1, <1>5, <1>6, <1>7, <1>8

(* Payments, refunds and invoices. *)
LEMMA FinancialStep ==
  ASSUME TypeOK, Shape, WholeRows, WholeCopies, RefundsHavePayment, NothingPastLook,
         BehindFinancial, [Next]_vars, escaped' = {}
  PROVE  BehindFinancial'
<1> USE DEF RefundsHavePayment, NothingPastLook, BehindFinancial, Empty, EmptyBut, TypeOK, Shape,
            PastQuiesce, PastFinancial, PastObjects, PastProvider, PastEvents, PastRecords,
            PastCache, PastSearch, PastCustomer, Goto, Carry, Finish, Return, Put, Project,
            Advance, queues, writers, past, Tables, Rows, Raw, Writers, AllFlows, Consumers,
            Nothing
<1>1. CASE FetchCustomer \/ EnsureProviderCustomer
  BY <1>1 DEF FetchCustomer, EnsureProviderCustomer
<1>2. CASE InsertPayment
  BY <1>2 DEF InsertPayment
<1>3. CASE CallProcessor \/ SubmitPayment
  BY <1>3 DEF CallProcessor, SubmitPayment
<1>4. CASE PaymentSucceeded
  BY <1>4 DEF PaymentSucceeded
<1>5. CASE ReadPayment \/ LookUpRefunded \/ InsertRefund \/ RefundSucceeded
  BY <1>5 DEF ReadPayment, LookUpRefunded, InsertRefund, RefundSucceeded
<1>6. CASE FetchForInvoice \/ StoreInvoice \/ InvoiceFails
  BY <1>6 DEF FetchForInvoice, StoreInvoice, InvoiceFails
<1>7. CASE InsertInvoice
  <2>1. "uuid" \in held'["invoices"]["issued"] /\ "uuid" \in held'["manifests"]["issued"]
    BY <1>7, InvoiceWrites
  <2> QED
    BY <1>7, <2>1, InvoiceWrites
<1>8. CASE ClaimJob \/ LookUpReceipt \/ StoreReceipt
  BY <1>8 DEF ClaimJob, LookUpReceipt, StoreReceipt
<1>9. CASE CompleteJob
  BY <1>9 DEF CompleteJob
<1>10. CASE JobFails \/ WorkerDies
  BY <1>10 DEF JobFails, WorkerDies
<1>11. CASE LookUpProjection
  BY <1>11 DEF LookUpProjection
<1>12. CASE IndexDocument \/ CacheActivity \/ RecordAnalytics \/ ProjectionFails
  BY <1>12 DEF IndexDocument, CacheActivity, RecordAnalytics, ProjectionFails
<1>13. CASE RecordDelivery \/ DeliveryRollsBack
  BY <1>13 DEF RecordDelivery, DeliveryRollsBack
<1>14. CASE QuiesceSubject
  BY <1>14 DEF QuiesceSubject
<1>15. CASE AnonymizeFinancialRecords \/ SanitizeObjectStorage
  BY <1>15 DEF AnonymizeFinancialRecords, SanitizeObjectStorage
<1>16. CASE EraseNotificationProvider
  BY <1>16 DEF EraseNotificationProvider
<1>17. CASE SanitizeEvents \/ SanitizeRecords \/ DeleteNotifications
  BY <1>17, SMTT(20) DEF SanitizeEvents, SanitizeRecords, DeleteNotifications
<1>18. CASE EraseCache \/ EraseSearch
  BY <1>18 DEF EraseCache, EraseSearch
<1>19. CASE EraseCustomerRecords \/ VerifyCompletion
  BY <1>19 DEF EraseCustomerRecords, VerifyCompletion
<1>20. ASSUME NEW e \in Rows, Publish(e) \/ ReceiveProjection(e) \/ LookUpDelivery(e) \/ Deliver(e)
      PROVE  BehindFinancial'
  BY <1>20 DEF Publish, ReceiveProjection, LookUpDelivery, Deliver
<1>21. CASE UNCHANGED vars
  BY <1>21 DEF vars
<1> QED
  BY <1>1, <1>2, <1>3, <1>4, <1>5, <1>6, <1>7, <1>8, <1>9, <1>10, <1>11, <1>12, <1>13, <1>14,
     <1>15, <1>16, <1>17, <1>18, <1>19, <1>20, <1>21 DEF Next, Requests, Jobs, Consume, Erase

(* Documents. *)
LEMMA ObjectsStep ==
  ASSUME TypeOK, Shape, WholeRows, WholeCopies, RefundsHavePayment, NothingPastLook,
         BehindObjects, [Next]_vars, escaped' = {}
  PROVE  BehindObjects'
<1> USE DEF WholeRows, WholeCopies, NothingPastLook, BehindObjects, Documented, Blocked, EmptyBut,
            AtJob, Orphan, TypeOK, Shape, PastQuiesce, PastFinancial, PastObjects, PastProvider,
            PastEvents, PastRecords, PastCache, PastSearch, PastCustomer, Goto, Carry, Finish,
            Return, Put, Project, Advance, queues, writers, past, Tables, Rows, Raw, Writers,
            AllFlows, Consumers, Nothing
<1>1. CASE FetchCustomer \/ EnsureProviderCustomer
  BY <1>1 DEF FetchCustomer, EnsureProviderCustomer
<1>2. CASE InsertPayment
  BY <1>2 DEF InsertPayment
<1>3. CASE CallProcessor
  BY <1>3 DEF CallProcessor
<1>4. CASE SubmitPayment
  BY <1>4 DEF SubmitPayment
<1>5. CASE PaymentSucceeded
  BY <1>5 DEF PaymentSucceeded
<1>6. CASE ReadPayment \/ LookUpRefunded \/ InsertRefund \/ RefundSucceeded
  BY <1>6 DEF ReadPayment, LookUpRefunded, InsertRefund, RefundSucceeded
<1>7. CASE FetchForInvoice \/ StoreInvoice \/ InvoiceFails
  BY <1>7 DEF FetchForInvoice, StoreInvoice, InvoiceFails
<1>8. CASE InsertInvoice
  <2>1. "uuid" \in held'["invoices"]["issued"] /\ "uuid" \in held'["manifests"]["issued"]
    BY <1>8, InvoiceWrites
  <2> QED
    BY <1>8, <2>1, InvoiceWrites
<1>9. CASE ClaimJob \/ LookUpReceipt \/ StoreReceipt
  BY <1>9, SMTT(40) DEF ClaimJob, LookUpReceipt, StoreReceipt
<1>10. CASE CompleteJob
  BY <1>10, JobWrites
<1>11. CASE JobFails \/ WorkerDies
  BY <1>11 DEF JobFails, WorkerDies
<1>12. CASE LookUpProjection
  BY <1>12, SMTT(40) DEF LookUpProjection
<1>13. CASE IndexDocument
  BY <1>13 DEF IndexDocument
<1>14. CASE CacheActivity
  BY <1>14 DEF CacheActivity
<1>15. CASE RecordAnalytics
  BY <1>15 DEF RecordAnalytics
<1>16. CASE ProjectionFails
  BY <1>16 DEF ProjectionFails
<1>17. CASE RecordDelivery \/ DeliveryRollsBack
  BY <1>17 DEF RecordDelivery, DeliveryRollsBack
<1>18. CASE QuiesceSubject
  BY <1>18 DEF QuiesceSubject
<1>19. CASE AnonymizeFinancialRecords \/ SanitizeObjectStorage
  BY <1>19 DEF AnonymizeFinancialRecords, SanitizeObjectStorage
<1>20. CASE EraseNotificationProvider
  BY <1>20 DEF EraseNotificationProvider
<1>21. CASE SanitizeEvents
  BY <1>21 DEF SanitizeEvents
<1>22. CASE SanitizeRecords
  BY <1>22 DEF SanitizeRecords
<1>23. CASE DeleteNotifications
  BY <1>23 DEF DeleteNotifications
<1>24. CASE EraseCache \/ EraseSearch
  BY <1>24 DEF EraseCache, EraseSearch
<1>25. CASE EraseCustomerRecords \/ VerifyCompletion
  BY <1>25 DEF EraseCustomerRecords, VerifyCompletion
<1>26. ASSUME NEW e \in Rows, Publish(e) \/ ReceiveProjection(e) \/ LookUpDelivery(e) \/ Deliver(e)
      PROVE  BehindObjects'
  BY <1>26 DEF Publish, ReceiveProjection, LookUpDelivery, Deliver
<1>27. CASE UNCHANGED vars
  BY <1>27 DEF vars
<1> QED
  BY <1>1, <1>2, <1>3, <1>4, <1>5, <1>6, <1>7, <1>8, <1>9, <1>10, <1>11, <1>12, <1>13, <1>14,
     <1>15, <1>16, <1>17, <1>18, <1>19, <1>20, <1>21, <1>22, <1>23, <1>24, <1>25, <1>26,
     <1>27 DEF Next, Requests, Jobs, Consume, Erase

(* Letters and mail. *)
LEMMA ProviderStep ==
  ASSUME TypeOK, Shape, WholeRows, WholeCopies, RefundsHavePayment, NothingPastLook,
         BehindProvider, [Next]_vars, escaped' = {}
  PROVE  BehindProvider'
<1> USE DEF WholeRows, WholeCopies, NothingPastLook, BehindProvider, Empty, ByCustomer, TypeOK,
            Shape, PastQuiesce, PastFinancial, PastObjects, PastProvider, PastEvents, PastRecords,
            PastCache, PastSearch, PastCustomer, Goto, Carry, Finish, Return, Put, Project,
            Advance, queues, writers, past, Tables, Rows, Raw, Writers, AllFlows, Consumers,
            Nothing
<1>1. CASE FetchCustomer \/ EnsureProviderCustomer
  BY <1>1 DEF FetchCustomer, EnsureProviderCustomer
<1>2. CASE InsertPayment
  BY <1>2 DEF InsertPayment
<1>3. CASE CallProcessor
  BY <1>3 DEF CallProcessor
<1>4. CASE SubmitPayment
  BY <1>4 DEF SubmitPayment
<1>5. CASE PaymentSucceeded
  BY <1>5 DEF PaymentSucceeded
<1>6. CASE ReadPayment \/ LookUpRefunded \/ InsertRefund \/ RefundSucceeded
  BY <1>6 DEF ReadPayment, LookUpRefunded, InsertRefund, RefundSucceeded
<1>7. CASE FetchForInvoice \/ StoreInvoice \/ InvoiceFails
  BY <1>7 DEF FetchForInvoice, StoreInvoice, InvoiceFails
<1>8. CASE InsertInvoice
  BY <1>8 DEF InsertInvoice
<1>9. CASE ClaimJob \/ LookUpReceipt \/ StoreReceipt
  BY <1>9 DEF ClaimJob, LookUpReceipt, StoreReceipt
<1>10. CASE CompleteJob
  BY <1>10 DEF CompleteJob
<1>11. CASE JobFails \/ WorkerDies
  BY <1>11 DEF JobFails, WorkerDies
<1>12. CASE LookUpProjection
  BY <1>12 DEF LookUpProjection
<1>13. CASE IndexDocument \/ CacheActivity \/ RecordAnalytics \/ ProjectionFails
  BY <1>13 DEF IndexDocument, CacheActivity, RecordAnalytics, ProjectionFails
<1>14. CASE RecordDelivery \/ DeliveryRollsBack
  BY <1>14 DEF RecordDelivery, DeliveryRollsBack
<1>15. CASE QuiesceSubject
  BY <1>15 DEF QuiesceSubject
<1>16. CASE AnonymizeFinancialRecords \/ SanitizeObjectStorage
  BY <1>16 DEF AnonymizeFinancialRecords, SanitizeObjectStorage
<1>17. CASE EraseNotificationProvider
  BY <1>17, SMTT(40) DEF EraseNotificationProvider
<1>18. CASE SanitizeEvents
  BY <1>18 DEF SanitizeEvents
<1>19. CASE SanitizeRecords
  BY <1>19 DEF SanitizeRecords
<1>20. CASE DeleteNotifications
  BY <1>20 DEF DeleteNotifications
<1>21. CASE EraseCache \/ EraseSearch
  BY <1>21, SMTT(20) DEF EraseCache, EraseSearch
<1>22. CASE EraseCustomerRecords \/ VerifyCompletion
  BY <1>22 DEF EraseCustomerRecords, VerifyCompletion
<1>23. ASSUME NEW e \in Rows, Publish(e) \/ ReceiveProjection(e) \/ LookUpDelivery(e) \/ Deliver(e)
      PROVE  BehindProvider'
  BY <1>23 DEF Publish, ReceiveProjection, LookUpDelivery, Deliver
<1>24. CASE UNCHANGED vars
  BY <1>24 DEF vars
<1> QED
  BY <1>1, <1>2, <1>3, <1>4, <1>5, <1>6, <1>7, <1>8, <1>9, <1>10, <1>11, <1>12, <1>13, <1>14,
     <1>15, <1>16, <1>17, <1>18, <1>19, <1>20, <1>21, <1>22, <1>23, <1>24 DEF Next, Requests,
     Jobs, Consume, Erase

(* Notices, jobs and analytics. *)
LEMMA RecordsStep ==
  ASSUME TypeOK, Shape, WholeRows, WholeCopies, RefundsHavePayment, NothingPastLook,
         BehindFinancial, BehindRecords, [Next]_vars, escaped' = {}
  PROVE  BehindRecords'
<1> USE DEF WholeRows, WholeCopies, NothingPastLook, BehindFinancial, BehindRecords, Empty,
            ByCustomer, TypeOK, Shape, PastQuiesce, PastFinancial, PastObjects, PastProvider,
            PastEvents, PastRecords, PastCache, PastSearch, PastCustomer, Goto, Carry, Finish,
            Return, Put, Project, Advance, queues, writers, past, Tables, Rows, Raw, Writers,
            AllFlows, Consumers, Nothing
<1>1. CASE FetchCustomer \/ EnsureProviderCustomer
  BY <1>1 DEF FetchCustomer, EnsureProviderCustomer
<1>2. CASE InsertPayment
  BY <1>2, ZenonT(30) DEF InsertPayment
<1>3. CASE CallProcessor
  BY <1>3, SMTT(40) DEF CallProcessor
<1>4. CASE SubmitPayment
  BY <1>4, SMTT(20) DEF SubmitPayment
<1>5. CASE PaymentSucceeded
  <2>1. PastFinancial => held["payments"]["intent"] = {}
    BY DEF BehindFinancial
  <2>2. \A t \in Tables, r \in Rows :
          held'[t][r] \in {held[t][r], held["payments"]["intent"]}
          /\ (held'[t][r] # held[t][r] => t \in {"jobs", "outbox"})
    BY <1>5 DEF PaymentSucceeded
  <2>3. UNCHANGED <<at, escaped>>
    BY <1>5 DEF PaymentSucceeded
  <2>4. ASSUME PastRecords
        PROVE  \A r \in Rows : held'["notices"][r] = {} /\ held'["jobs"][r] = {}
                              /\ held'["analytics"][r] = {}
    BY <2>1, <2>2, <2>4
  <2> QED
    BY <2>3, <2>4
<1>6. CASE ReadPayment \/ LookUpRefunded \/ InsertRefund \/ RefundSucceeded
  BY <1>6 DEF ReadPayment, LookUpRefunded, InsertRefund, RefundSucceeded
<1>7. CASE FetchForInvoice \/ StoreInvoice \/ InvoiceFails
  BY <1>7 DEF FetchForInvoice, StoreInvoice, InvoiceFails
<1>8. CASE InsertInvoice
  BY <1>8 DEF InsertInvoice
<1>9. CASE ClaimJob \/ LookUpReceipt \/ StoreReceipt
  BY <1>9, SMTT(40) DEF ClaimJob, LookUpReceipt, StoreReceipt
<1>10. CASE CompleteJob
  BY <1>10 DEF CompleteJob
<1>11. CASE JobFails \/ WorkerDies
  BY <1>11 DEF JobFails, WorkerDies
<1>12. CASE LookUpProjection
  BY <1>12 DEF LookUpProjection
<1>13. CASE IndexDocument
  BY <1>13 DEF IndexDocument
<1>14. CASE CacheActivity
  BY <1>14 DEF CacheActivity
<1>15. CASE RecordAnalytics
  BY <1>15 DEF RecordAnalytics
<1>16. CASE ProjectionFails
  BY <1>16 DEF ProjectionFails
<1>17. CASE RecordDelivery \/ DeliveryRollsBack
  BY <1>17 DEF RecordDelivery, DeliveryRollsBack
<1>18. CASE QuiesceSubject
  BY <1>18 DEF QuiesceSubject
<1>19. CASE AnonymizeFinancialRecords \/ SanitizeObjectStorage
  BY <1>19 DEF AnonymizeFinancialRecords, SanitizeObjectStorage
<1>20. CASE EraseNotificationProvider
  BY <1>20 DEF EraseNotificationProvider
<1>21. CASE SanitizeEvents
  BY <1>21 DEF SanitizeEvents
<1>22. CASE SanitizeRecords
  <2>1. /\ at = "records" /\ at' = "secondPass"
        /\ held' = [held EXCEPT !["jobs"] = Nothing, !["deadLetters"] = Nothing,
                                !["keys"] = Nothing, !["analytics"] = Nothing,
                                !["notices"] = ByCustomer("notices"), !["manifests"] = Nothing]
    BY <1>22 DEF SanitizeRecords
  <2>2. /\ held'["jobs"] = Nothing /\ held'["analytics"] = Nothing
        /\ held'["notices"] = ByCustomer("notices")
    BY <2>1
  <2>3. \A r \in Rows : ByCustomer("notices")[r] = {}
    OBVIOUS
  <2>4. \A r \in Rows : held'["notices"][r] = {} /\ held'["jobs"][r] = {}
                        /\ held'["analytics"][r] = {}
    BY <2>2, <2>3
  <2> QED
    BY <2>4
<1>23. CASE DeleteNotifications
  BY <1>23 DEF DeleteNotifications
<1>24. CASE EraseCache \/ EraseSearch
  BY <1>24 DEF EraseCache, EraseSearch
<1>25. CASE EraseCustomerRecords \/ VerifyCompletion
  BY <1>25 DEF EraseCustomerRecords, VerifyCompletion
<1>26. ASSUME NEW e \in Rows, Publish(e) \/ ReceiveProjection(e) \/ LookUpDelivery(e) \/ Deliver(e)
      PROVE  BehindRecords'
  BY <1>26 DEF Publish, ReceiveProjection, LookUpDelivery, Deliver
<1>27. CASE UNCHANGED vars
  BY <1>27 DEF vars
<1> QED
  BY <1>1, <1>2, <1>3, <1>4, <1>5, <1>6, <1>7, <1>8, <1>9, <1>10, <1>11, <1>12, <1>13, <1>14,
     <1>15, <1>16, <1>17, <1>18, <1>19, <1>20, <1>21, <1>22, <1>23, <1>24, <1>25, <1>26,
     <1>27 DEF Next, Requests, Jobs, Consume, Erase

(* Cache and search. *)
LEMMA SearchStep ==
  ASSUME TypeOK, Shape, WholeRows, WholeCopies, RefundsHavePayment, NothingPastLook,
         BehindSearch, [Next]_vars, escaped' = {}
  PROVE  BehindSearch'
<1> USE DEF WholeRows, WholeCopies, NothingPastLook, BehindSearch, Empty, ByCustomer, TypeOK,
            Shape, PastQuiesce, PastFinancial, PastObjects, PastProvider, PastEvents, PastRecords,
            PastCache, PastSearch, PastCustomer, Goto, Carry, Finish, Return, Put, Project,
            Advance, queues, writers, past, Tables, Rows, Raw, Writers, AllFlows, Consumers,
            Nothing
<1>1. CASE FetchCustomer \/ EnsureProviderCustomer
  BY <1>1 DEF FetchCustomer, EnsureProviderCustomer
<1>2. CASE InsertPayment
  BY <1>2 DEF InsertPayment
<1>3. CASE CallProcessor
  BY <1>3 DEF CallProcessor
<1>4. CASE SubmitPayment
  BY <1>4 DEF SubmitPayment
<1>5. CASE PaymentSucceeded
  BY <1>5 DEF PaymentSucceeded
<1>6. CASE ReadPayment \/ LookUpRefunded \/ InsertRefund \/ RefundSucceeded
  BY <1>6 DEF ReadPayment, LookUpRefunded, InsertRefund, RefundSucceeded
<1>7. CASE FetchForInvoice \/ StoreInvoice \/ InvoiceFails
  BY <1>7 DEF FetchForInvoice, StoreInvoice, InvoiceFails
<1>8. CASE InsertInvoice
  BY <1>8 DEF InsertInvoice
<1>9. CASE ClaimJob \/ LookUpReceipt \/ StoreReceipt
  BY <1>9 DEF ClaimJob, LookUpReceipt, StoreReceipt
<1>10. CASE CompleteJob
  BY <1>10 DEF CompleteJob
<1>11. CASE JobFails \/ WorkerDies
  BY <1>11 DEF JobFails, WorkerDies
<1>12. CASE LookUpProjection
  BY <1>12 DEF LookUpProjection
<1>13. CASE IndexDocument \/ CacheActivity \/ RecordAnalytics \/ ProjectionFails
  BY <1>13, SMTT(40) DEF IndexDocument, CacheActivity, RecordAnalytics, ProjectionFails
<1>14. CASE RecordDelivery \/ DeliveryRollsBack
  BY <1>14 DEF RecordDelivery, DeliveryRollsBack
<1>15. CASE QuiesceSubject
  BY <1>15 DEF QuiesceSubject
<1>16. CASE AnonymizeFinancialRecords \/ SanitizeObjectStorage
  BY <1>16 DEF AnonymizeFinancialRecords, SanitizeObjectStorage
<1>17. CASE EraseNotificationProvider
  BY <1>17 DEF EraseNotificationProvider
<1>18. CASE SanitizeEvents \/ SanitizeRecords \/ DeleteNotifications
  BY <1>18 DEF SanitizeEvents, SanitizeRecords, DeleteNotifications
<1>19. CASE EraseCache \/ EraseSearch
  BY <1>19 DEF EraseCache, EraseSearch
<1>20. CASE EraseCustomerRecords \/ VerifyCompletion
  BY <1>20 DEF EraseCustomerRecords, VerifyCompletion
<1>21. ASSUME NEW e \in Rows, Publish(e) \/ ReceiveProjection(e) \/ LookUpDelivery(e) \/ Deliver(e)
      PROVE  BehindSearch'
  BY <1>21 DEF Publish, ReceiveProjection, LookUpDelivery, Deliver
<1>22. CASE UNCHANGED vars
  BY <1>22 DEF vars
<1> QED
  BY <1>1, <1>2, <1>3, <1>4, <1>5, <1>6, <1>7, <1>8, <1>9, <1>10, <1>11, <1>12, <1>13, <1>14,
     <1>15, <1>16, <1>17, <1>18, <1>19, <1>20, <1>21, <1>22 DEF Next, Requests, Jobs, Consume,
     Erase

(* The customer, and what verification looks at. *)
LEMMA CustomerStep ==
  ASSUME TypeOK, Shape, WholeRows, WholeCopies, RefundsHavePayment, NothingPastLook,
         BehindCustomer, [Next]_vars, escaped' = {}
  PROVE  BehindCustomer'
<1> USE DEF WholeRows, WholeCopies, NothingPastLook, BehindCustomer, Blocked, Empty,
            VerificationPasses, TypeOK, Shape, PastQuiesce, PastFinancial, PastObjects,
            PastProvider, PastEvents, PastRecords, PastCache, PastSearch, PastCustomer, Goto,
            Carry, Finish, Return, Put, Project, Advance, queues, writers, past, Tables, Rows,
            Raw, Writers, AllFlows, Consumers, Nothing
<1>1. CASE FetchCustomer \/ EnsureProviderCustomer
  BY <1>1 DEF FetchCustomer, EnsureProviderCustomer
<1>2. CASE InsertPayment
  BY <1>2 DEF InsertPayment
<1>3. CASE CallProcessor
  BY <1>3 DEF CallProcessor
<1>4. CASE SubmitPayment
  BY <1>4 DEF SubmitPayment
<1>5. CASE PaymentSucceeded
  BY <1>5 DEF PaymentSucceeded
<1>6. CASE ReadPayment \/ LookUpRefunded \/ InsertRefund \/ RefundSucceeded
  BY <1>6 DEF ReadPayment, LookUpRefunded, InsertRefund, RefundSucceeded
<1>7. CASE FetchForInvoice \/ StoreInvoice \/ InvoiceFails
  BY <1>7 DEF FetchForInvoice, StoreInvoice, InvoiceFails
<1>8. CASE InsertInvoice
  BY <1>8 DEF InsertInvoice
<1>9. CASE ClaimJob
  BY <1>9 DEF ClaimJob
<1>10. CASE LookUpReceipt
  BY <1>10 DEF LookUpReceipt
<1>11. CASE StoreReceipt
  BY <1>11 DEF StoreReceipt
<1>12. CASE CompleteJob
  BY <1>12 DEF CompleteJob
<1>13. CASE JobFails \/ WorkerDies
  BY <1>13 DEF JobFails, WorkerDies
<1>14. CASE LookUpProjection
  BY <1>14 DEF LookUpProjection
<1>15. CASE IndexDocument \/ CacheActivity \/ RecordAnalytics \/ ProjectionFails
  BY <1>15 DEF IndexDocument, CacheActivity, RecordAnalytics, ProjectionFails
<1>16. CASE RecordDelivery \/ DeliveryRollsBack
  BY <1>16 DEF RecordDelivery, DeliveryRollsBack
<1>17. CASE QuiesceSubject
  BY <1>17 DEF QuiesceSubject
<1>18. CASE AnonymizeFinancialRecords \/ SanitizeObjectStorage
  BY <1>18 DEF AnonymizeFinancialRecords, SanitizeObjectStorage
<1>19. CASE EraseNotificationProvider
  BY <1>19 DEF EraseNotificationProvider
<1>20. CASE SanitizeEvents \/ SanitizeRecords \/ DeleteNotifications
  BY <1>20 DEF SanitizeEvents, SanitizeRecords, DeleteNotifications
<1>21. CASE EraseCache \/ EraseSearch
  BY <1>21 DEF EraseCache, EraseSearch
<1>22. CASE EraseCustomerRecords
  BY <1>22 DEF EraseCustomerRecords
<1>23. CASE VerifyCompletion
  BY <1>23 DEF VerifyCompletion
<1>24. ASSUME NEW e \in Rows, Publish(e) \/ ReceiveProjection(e) \/ LookUpDelivery(e) \/ Deliver(e)
      PROVE  BehindCustomer'
  BY <1>24 DEF Publish, ReceiveProjection, LookUpDelivery, Deliver
<1>25. CASE UNCHANGED vars
  BY <1>25 DEF vars
<1> QED
  BY <1>1, <1>2, <1>3, <1>4, <1>5, <1>6, <1>7, <1>8, <1>9, <1>10, <1>11, <1>12, <1>13, <1>14,
     <1>15, <1>16, <1>17, <1>18, <1>19, <1>20, <1>21, <1>22, <1>23, <1>24, <1>25 DEF Next,
     Requests, Jobs, Consume, Erase

(* Events, and who still has an id for them. *)
LEMMA EventsStep ==
  ASSUME TypeOK, Shape, WholeRows, WholeCopies, RefundsHavePayment, NothingPastLook,
         BehindFinancial, BehindRecords, BehindEvents, [Next]_vars, escaped' = {}, carried' = {}
  PROVE  BehindEvents'
<1> USE DEF WholeRows, WholeCopies, NothingPastLook, BehindFinancial, BehindRecords, BehindEvents,
            Blocked, Empty, EmptyBut, AtJob, TypeOK, Shape, PastQuiesce, PastFinancial,
            PastObjects, PastProvider, PastEvents, PastRecords, PastCache, PastSearch,
            PastCustomer, Goto, Carry, Finish, Return, Put, Project, Advance, queues, writers,
            past, Tables, Rows, Raw, Writers, AllFlows, Consumers, Nothing
<1>1. CASE FetchCustomer \/ EnsureProviderCustomer
  BY <1>1 DEF FetchCustomer, EnsureProviderCustomer
<1>2. CASE InsertPayment
  BY <1>2 DEF InsertPayment
<1>3. CASE CallProcessor \/ SubmitPayment
  BY <1>3 DEF CallProcessor, SubmitPayment
<1>4. CASE PaymentSucceeded
  BY <1>4 DEF PaymentSucceeded
<1>5. CASE ReadPayment
  BY <1>5 DEF ReadPayment
<1>6. CASE LookUpRefunded
  BY <1>6 DEF LookUpRefunded
<1>7. CASE InsertRefund
  BY <1>7 DEF InsertRefund
<1>8. CASE RefundSucceeded
  BY <1>8 DEF RefundSucceeded
<1>9. CASE FetchForInvoice
  BY <1>9 DEF FetchForInvoice
<1>10. CASE StoreInvoice
  BY <1>10 DEF StoreInvoice
<1>11. CASE InvoiceFails
  BY <1>11 DEF InvoiceFails
<1>12. CASE InsertInvoice
  BY <1>12, SMTT(40) DEF InsertInvoice
<1>13. CASE ClaimJob
  BY <1>13 DEF ClaimJob
<1>14. CASE LookUpReceipt
  BY <1>14 DEF LookUpReceipt
<1>15. CASE StoreReceipt
  BY <1>15 DEF StoreReceipt
<1>16. CASE CompleteJob
  BY <1>16 DEF CompleteJob
<1>17. CASE JobFails \/ WorkerDies
  BY <1>17 DEF JobFails, WorkerDies
<1>18. CASE LookUpProjection
  BY <1>18 DEF LookUpProjection
<1>19. CASE IndexDocument \/ CacheActivity \/ RecordAnalytics \/ ProjectionFails
  BY <1>19 DEF IndexDocument, CacheActivity, RecordAnalytics, ProjectionFails
<1>20. CASE RecordDelivery \/ DeliveryRollsBack
  BY <1>20 DEF RecordDelivery, DeliveryRollsBack
<1>21. CASE QuiesceSubject
  BY <1>21 DEF QuiesceSubject
<1>22. CASE AnonymizeFinancialRecords \/ SanitizeObjectStorage
  BY <1>22 DEF AnonymizeFinancialRecords, SanitizeObjectStorage
<1>23. CASE EraseNotificationProvider
  BY <1>23 DEF EraseNotificationProvider
<1>24. CASE SanitizeEvents
  BY <1>24 DEF SanitizeEvents
<1>25. CASE SanitizeRecords
  BY <1>25 DEF SanitizeRecords
<1>26. CASE DeleteNotifications
  BY <1>26 DEF DeleteNotifications
<1>27. CASE EraseCache
  BY <1>27 DEF EraseCache
<1>28. CASE EraseSearch
  BY <1>28 DEF EraseSearch
<1>29. CASE EraseCustomerRecords \/ VerifyCompletion
  BY <1>29 DEF EraseCustomerRecords, VerifyCompletion
<1>30. ASSUME NEW e \in Rows, Publish(e) PROVE BehindEvents'
  BY <1>30 DEF Publish
<1>31. ASSUME NEW e \in Rows, ReceiveProjection(e) PROVE BehindEvents'
  BY <1>31 DEF ReceiveProjection
<1>32. ASSUME NEW e \in Rows, LookUpDelivery(e) PROVE BehindEvents'
  BY <1>32 DEF LookUpDelivery
<1>33. ASSUME NEW e \in Rows, Deliver(e) PROVE BehindEvents'
  BY <1>33 DEF Deliver
<1>34. CASE UNCHANGED vars
  BY <1>34 DEF vars
<1> QED
  BY <1>1, <1>2, <1>3, <1>4, <1>5, <1>6, <1>7, <1>8, <1>9, <1>10, <1>11, <1>12, <1>13, <1>14,
     <1>15, <1>16, <1>17, <1>18, <1>19, <1>20, <1>21, <1>22, <1>23, <1>24, <1>25, <1>26, <1>27,
     <1>28, <1>29, <1>30, <1>31, <1>32, <1>33, <1>34 DEF Next, Requests, Jobs, Consume, Erase

(* Dead letters, idempotency keys and manifests. *)
LEMMA JobsStep ==
  ASSUME TypeOK, Shape, WholeRows, WholeCopies, RefundsHavePayment, NothingPastLook,
         BehindEvents, BehindJobs, [Next]_vars, escaped' = {}, carried' = {}
  PROVE  BehindJobs'
<1> USE DEF WholeRows, WholeCopies, NothingPastLook, BehindEvents, BehindJobs, Blocked, Empty,
            EmptyBut, AtJob, TypeOK, Shape, PastQuiesce, PastFinancial, PastObjects, PastProvider,
            PastEvents, PastRecords, PastCache, PastSearch, PastCustomer, Goto, Carry, Finish,
            Return, Put, Project, Advance, queues, writers, past, Tables, Rows, Raw, Writers,
            AllFlows, Consumers, Nothing
<1>1. CASE FetchCustomer \/ EnsureProviderCustomer
  BY <1>1 DEF FetchCustomer, EnsureProviderCustomer
<1>2. CASE InsertPayment
  BY <1>2 DEF InsertPayment
<1>3. CASE CallProcessor \/ SubmitPayment
  BY <1>3 DEF CallProcessor, SubmitPayment
<1>4. CASE PaymentSucceeded
  BY <1>4 DEF PaymentSucceeded
<1>5. CASE ReadPayment
  BY <1>5 DEF ReadPayment
<1>6. CASE LookUpRefunded
  BY <1>6 DEF LookUpRefunded
<1>7. CASE InsertRefund
  BY <1>7 DEF InsertRefund
<1>8. CASE RefundSucceeded
  BY <1>8 DEF RefundSucceeded
<1>9. CASE FetchForInvoice \/ StoreInvoice \/ InvoiceFails
  BY <1>9 DEF FetchForInvoice, StoreInvoice, InvoiceFails
<1>10. CASE InsertInvoice
  <2>1. "uuid" \in held'["invoices"]["issued"] /\ "uuid" \in held'["manifests"]["issued"]
    BY <1>10, InvoiceWrites
  <2> QED
    BY <1>10, <2>1, InvoiceWrites
<1>11. CASE ClaimJob
  BY <1>11 DEF ClaimJob
<1>12. CASE LookUpReceipt
  BY <1>12 DEF LookUpReceipt
<1>13. CASE StoreReceipt
  BY <1>13 DEF StoreReceipt
<1>14. CASE CompleteJob
  BY <1>14, JobWrites
<1>15. CASE JobFails \/ WorkerDies
  BY <1>15 DEF JobFails, WorkerDies
<1>16. CASE LookUpProjection
  BY <1>16 DEF LookUpProjection
<1>17. CASE IndexDocument
  BY <1>17 DEF IndexDocument
<1>18. CASE CacheActivity
  BY <1>18 DEF CacheActivity
<1>19. CASE RecordAnalytics
  BY <1>19 DEF RecordAnalytics
<1>20. CASE ProjectionFails
  BY <1>20 DEF ProjectionFails
<1>21. CASE RecordDelivery \/ DeliveryRollsBack
  BY <1>21 DEF RecordDelivery, DeliveryRollsBack
<1>22. CASE QuiesceSubject
  BY <1>22 DEF QuiesceSubject
<1>23. CASE AnonymizeFinancialRecords \/ SanitizeObjectStorage
  BY <1>23 DEF AnonymizeFinancialRecords, SanitizeObjectStorage
<1>24. CASE EraseNotificationProvider
  BY <1>24 DEF EraseNotificationProvider
<1>25. CASE SanitizeEvents \/ SanitizeRecords \/ DeleteNotifications
  BY <1>25 DEF SanitizeEvents, SanitizeRecords, DeleteNotifications
<1>26. CASE EraseCache
  BY <1>26 DEF EraseCache
<1>27. CASE EraseSearch
  BY <1>27 DEF EraseSearch
<1>28. CASE EraseCustomerRecords \/ VerifyCompletion
  BY <1>28 DEF EraseCustomerRecords, VerifyCompletion
<1>29. ASSUME NEW e \in Rows, Publish(e) \/ ReceiveProjection(e) \/ LookUpDelivery(e) \/ Deliver(e)
      PROVE  BehindJobs'
  BY <1>29 DEF Publish, ReceiveProjection, LookUpDelivery, Deliver
<1>30. CASE UNCHANGED vars
  BY <1>30 DEF vars
<1> QED
  BY <1>1, <1>2, <1>3, <1>4, <1>5, <1>6, <1>7, <1>8, <1>9, <1>10, <1>11, <1>12, <1>13, <1>14,
     <1>15, <1>16, <1>17, <1>18, <1>19, <1>20, <1>21, <1>22, <1>23, <1>24, <1>25, <1>26, <1>27,
     <1>28, <1>29, <1>30 DEF Next, Requests, Jobs, Consume, Erase

(* The processor's customer. *)
LEMMA IdsStep ==
  ASSUME TypeOK, Shape, WholeRows, WholeCopies, RefundsHavePayment, NothingPastLook,
         BehindEvents, BehindCustomerIds, [Next]_vars, escaped' = {}, carried' = {}
  PROVE  BehindCustomerIds'
<1> USE DEF WholeRows, WholeCopies, NothingPastLook, BehindEvents, BehindCustomerIds, Empty,
            TypeOK, Shape, PastQuiesce, PastFinancial, PastObjects, PastProvider, PastEvents,
            PastRecords, PastCache, PastSearch, PastCustomer, Goto, Carry, Finish, Return, Put,
            Project, Advance, queues, writers, past, Tables, Rows, Raw, Writers, AllFlows,
            Consumers, Nothing
<1>1. CASE FetchCustomer \/ EnsureProviderCustomer
  BY <1>1 DEF FetchCustomer, EnsureProviderCustomer
<1>2. CASE InsertPayment
  BY <1>2 DEF InsertPayment
<1>3. CASE CallProcessor \/ SubmitPayment
  BY <1>3 DEF CallProcessor, SubmitPayment
<1>4. CASE PaymentSucceeded
  BY <1>4 DEF PaymentSucceeded
<1>5. CASE ReadPayment \/ LookUpRefunded \/ InsertRefund \/ RefundSucceeded
  BY <1>5 DEF ReadPayment, LookUpRefunded, InsertRefund, RefundSucceeded
<1>6. CASE FetchForInvoice \/ StoreInvoice \/ InvoiceFails
  BY <1>6 DEF FetchForInvoice, StoreInvoice, InvoiceFails
<1>7. CASE InsertInvoice
  BY <1>7 DEF InsertInvoice
<1>8. CASE ClaimJob \/ LookUpReceipt \/ StoreReceipt
  BY <1>8 DEF ClaimJob, LookUpReceipt, StoreReceipt
<1>9. CASE CompleteJob
  BY <1>9 DEF CompleteJob
<1>10. CASE JobFails \/ WorkerDies
  BY <1>10 DEF JobFails, WorkerDies
<1>11. CASE LookUpProjection
  BY <1>11 DEF LookUpProjection
<1>12. CASE IndexDocument \/ CacheActivity \/ RecordAnalytics \/ ProjectionFails
  BY <1>12 DEF IndexDocument, CacheActivity, RecordAnalytics, ProjectionFails
<1>13. CASE RecordDelivery \/ DeliveryRollsBack
  BY <1>13 DEF RecordDelivery, DeliveryRollsBack
<1>14. CASE QuiesceSubject
  BY <1>14 DEF QuiesceSubject
<1>15. CASE AnonymizeFinancialRecords \/ SanitizeObjectStorage
  BY <1>15 DEF AnonymizeFinancialRecords, SanitizeObjectStorage
<1>16. CASE EraseNotificationProvider
  BY <1>16 DEF EraseNotificationProvider
<1>17. CASE SanitizeEvents \/ SanitizeRecords \/ DeleteNotifications
  BY <1>17 DEF SanitizeEvents, SanitizeRecords, DeleteNotifications
<1>18. CASE EraseCache \/ EraseSearch
  BY <1>18 DEF EraseCache, EraseSearch
<1>19. CASE EraseCustomerRecords \/ VerifyCompletion
  BY <1>19 DEF EraseCustomerRecords, VerifyCompletion
<1>20. ASSUME NEW e \in Rows, Publish(e) \/ ReceiveProjection(e) \/ LookUpDelivery(e) \/ Deliver(e)
      PROVE  BehindCustomerIds'
  BY <1>20 DEF Publish, ReceiveProjection, LookUpDelivery, Deliver
<1>21. CASE UNCHANGED vars
  BY <1>21 DEF vars
<1> QED
  BY <1>1, <1>2, <1>3, <1>4, <1>5, <1>6, <1>7, <1>8, <1>9, <1>10, <1>11, <1>12, <1>13, <1>14,
     <1>15, <1>16, <1>17, <1>18, <1>19, <1>20, <1>21 DEF Next, Requests, Jobs, Consume, Erase

(* Only deliverOne adds to the mailbox. *)
LEMMA OnlyDeliverMails ==
  ASSUME held \in [Tables -> [Rows -> SUBSET Raw]], [Next]_vars, NEW r \in Rows,
         held["mail"][r] = {}, held'["mail"][r] # {}
  PROVE  \E f \in Rows : Deliver(f)
<1> USE DEF Put, Project, queues, writers, past, Tables, Rows, Nothing, ByCustomer
<1>1. CASE FetchCustomer \/ EnsureProviderCustomer
  BY <1>1 DEF FetchCustomer, EnsureProviderCustomer
<1>2. CASE InsertPayment
  BY <1>2 DEF InsertPayment
<1>3. CASE CallProcessor \/ SubmitPayment
  BY <1>3 DEF CallProcessor, SubmitPayment
<1>4. CASE PaymentSucceeded
  BY <1>4 DEF PaymentSucceeded
<1>5. CASE ReadPayment \/ LookUpRefunded \/ InsertRefund \/ RefundSucceeded
  BY <1>5 DEF ReadPayment, LookUpRefunded, InsertRefund, RefundSucceeded
<1>6. CASE FetchForInvoice \/ StoreInvoice \/ InvoiceFails
  BY <1>6 DEF FetchForInvoice, StoreInvoice, InvoiceFails
<1>7. CASE InsertInvoice
  BY <1>7 DEF InsertInvoice
<1>8. CASE ClaimJob \/ LookUpReceipt \/ StoreReceipt
  BY <1>8 DEF ClaimJob, LookUpReceipt, StoreReceipt
<1>9. CASE CompleteJob
  BY <1>9 DEF CompleteJob
<1>10. CASE JobFails \/ WorkerDies
  BY <1>10 DEF JobFails, WorkerDies
<1>11. CASE LookUpProjection
  BY <1>11 DEF LookUpProjection
<1>12. CASE IndexDocument \/ CacheActivity \/ RecordAnalytics \/ ProjectionFails
  BY <1>12 DEF IndexDocument, CacheActivity, RecordAnalytics, ProjectionFails
<1>13. CASE RecordDelivery \/ DeliveryRollsBack
  BY <1>13 DEF RecordDelivery, DeliveryRollsBack
<1>14. CASE QuiesceSubject
  BY <1>14 DEF QuiesceSubject
<1>15. CASE AnonymizeFinancialRecords \/ SanitizeObjectStorage
  BY <1>15 DEF AnonymizeFinancialRecords, SanitizeObjectStorage
<1>16. CASE EraseNotificationProvider
  BY <1>16 DEF EraseNotificationProvider
<1>17. CASE SanitizeEvents \/ SanitizeRecords \/ DeleteNotifications
  BY <1>17 DEF SanitizeEvents, SanitizeRecords, DeleteNotifications
<1>18. CASE EraseCache \/ EraseSearch
  BY <1>18 DEF EraseCache, EraseSearch
<1>19. CASE EraseCustomerRecords \/ VerifyCompletion
  BY <1>19 DEF EraseCustomerRecords, VerifyCompletion
<1>20. ASSUME NEW e \in Rows, Publish(e) \/ ReceiveProjection(e) \/ LookUpDelivery(e)
      PROVE  \E f \in Rows : Deliver(f)
  BY <1>20 DEF Publish, ReceiveProjection, LookUpDelivery
<1>21. ASSUME NEW e \in Rows, Deliver(e) PROVE \E f \in Rows : Deliver(f)
  BY <1>21
<1>22. CASE UNCHANGED vars
  BY <1>22 DEF vars
<1> QED
  BY <1>1, <1>2, <1>3, <1>4, <1>5, <1>6, <1>7, <1>8, <1>9, <1>10, <1>11, <1>12, <1>13, <1>14,
     <1>15, <1>16, <1>17, <1>18, <1>19, <1>20, <1>21, <1>22 DEF Next, Requests, Jobs, Consume,
     Erase

(* Initially refunds, documents and manifests are empty, and who pays later *)
(* has no payment yet.                                                      *)
LEMMA DataInit ==
  ASSUME Init
  PROVE  DataInv
<1>1. PICK mapping \in {{}, {"uuid"}} :
        held = [t \in Tables |-> [r \in Rows |->
          IF t = "mappings" /\ r = "customer" THEN mapping
          ELSE IF t \in {"customers", "outbox"} /\ r = "customer" THEN Raw
          ELSE IF r \notin Consumed \cap WrittenBefore[t] THEN {}
          ELSE IF r = "submitted" THEN {"uuid"} ELSE Raw]]
  BY DEF Init
<1>2. \A t \in Tables, r \in Rows : held[t][r] \in {{}, {"uuid"}, Raw}
  BY <1>1
<1>3. held["customers"]["customer"] = Raw
  BY <1>1 DEF Tables, Rows
<1>4. Empty("refunds") /\ Empty("documents") /\ Empty("manifests")
  BY <1>1 DEF Tables, Rows, WrittenBefore, Empty
<1>5. Consumed \subseteq Rows
  BY DEF Consumed, Rows
<1>6. payment # "none" => "intent" \in Consumed /\ "create" \notin flows
  BY DEF Init, Consumed
<1>7. "intent" \in Consumed => held["payments"]["intent"] = Raw
  BY <1>1 DEF Tables, Rows, WrittenBefore
<1>8. TypeOK
  <2>1. held \in [Tables -> [Rows -> SUBSET Raw]]
    BY <1>1 DEF Raw
  <2>2. /\ flows \in Scenarios /\ tombstone \in BOOLEAN /\ at \in Participants
        /\ payment \in {"none", "processing", "succeeded"} /\ job = "none"
    BY DEF Init, Participants
  <2>3. attempts \in 0 .. MaxAttempts
    BY DataAssumption DEF Init
  <2>4. /\ published \subseteq Rows /\ inbox \in [Consumers -> SUBSET Rows] /\ settled \subseteq Rows
        /\ event \in [Consumers -> Rows]
    BY <1>5 DEF Init, Rows
  <2>5. /\ copy \in [Writers -> SUBSET Raw] /\ escaped \subseteq Writers /\ carried \subseteq Writers
        /\ pc = [w \in Writers |-> "start"]
    BY DEF Init
  <2> QED
    BY <2>1, <2>2, <2>3, <2>4, <2>5 DEF TypeOK
<1>9. Tries
  BY <1>6, DataAssumption DEF Init, Tries, Writers, Consumers, AllFlows
<1>10. Shape
  BY <1>3, <1>4, <1>6, <1>7
  DEF Init, Shape, Empty, AtJob, Writers, Consumers, AllFlows, Tables, Rows, PastQuiesce,
      PastFinancial, PastObjects, PastProvider, PastEvents, PastRecords, PastCache, PastSearch,
      PastCustomer
<1>11. Whole
  <2>1. {} # {"pii"} /\ {"uuid"} # {"pii"} /\ Raw # {"pii"}
    BY DEF Raw
  <2>2. WholeRows
    BY <1>2, <2>1 DEF WholeRows
  <2>3. WholeCopies
    BY <2>1 DEF Init, WholeCopies
  <2>4. RefundsHavePayment
    BY <1>4 DEF Init, RefundsHavePayment, Writers, AllFlows
  <2> QED
    BY <2>2, <2>3, <2>4 DEF Whole
<1>12. Behind /\ BehindAll
  BY <1>4 DEF Init, Behind, BehindAll, NothingPastLook, BehindFinancial, BehindObjects,
              BehindProvider, BehindRecords, BehindSearch, BehindCustomer, BehindEvents, BehindJobs,
              BehindCustomerIds, Empty, PastFinancial, PastObjects, PastProvider, PastEvents,
              PastRecords, PastCache, PastSearch, PastCustomer
<1> QED
  BY <1>8, <1>9, <1>10, <1>11, <1>12 DEF DataInv

(* The parts together; those that suppose no escape suppose none before.    *)
LEMMA DataStep ==
  ASSUME DataInv, [Next]_vars
  PROVE  DataInv'
<1> USE DEF DataInv
<1>1. TypeOK' /\ Tries' /\ Shape'
  BY TypeStep, TriesStep, ShapeStep
<1>2. escaped \subseteq escaped' /\ carried \subseteq carried'
  BY HistoryGrows
<1>3. ASSUME "refund" \notin escaped'
      PROVE  /\ WholeRows /\ WholeCopies /\ RefundsHavePayment
             /\ WholeRows' /\ WholeCopies' /\ RefundsHavePayment'
  <2>1. WholeRows /\ WholeCopies /\ RefundsHavePayment
    BY <1>2, <1>3 DEF Whole
  <2>2. held \in [Tables -> [Rows -> SUBSET Raw]] /\ copy \in [Writers -> SUBSET Raw]
    BY DEF TypeOK
  <2>3. ASSUME NEW t \in Tables \ {"refunds", "mail"}, NEW r \in Rows PROVE held'[t][r] # {"pii"}
    BY <2>1, <2>2, RowsStep DEF RefundsHavePayment
  <2>4. ASSUME NEW w \in Writers \ {"refund"} PROVE copy'[w] # {"pii"}
    BY <2>1, <2>2, CopiesStep
  <2>5. WholeRows' /\ WholeCopies'
    BY <2>3, <2>4 DEF WholeRows, WholeCopies
  <2>6. RefundsHavePayment'
    BY <1>3, <2>1, RefundStep
  <2> QED
    BY <2>1, <2>5, <2>6
<1>4. Whole'
  BY <1>3 DEF Whole
<1>5. ASSUME escaped' = {}
      PROVE  /\ WholeRows /\ WholeCopies /\ RefundsHavePayment
             /\ NothingPastLook /\ BehindFinancial /\ BehindObjects /\ BehindProvider
             /\ BehindRecords /\ BehindSearch /\ BehindCustomer
  BY <1>2, <1>3, <1>5 DEF Behind
<1>6. Behind'
  BY <1>5, LookStep, FinancialStep, ObjectsStep, ProviderStep, RecordsStep, SearchStep,
     CustomerStep DEF Behind
<1>7. ASSUME escaped' = {}, carried' = {} PROVE BehindEvents /\ BehindJobs /\ BehindCustomerIds
  BY <1>2, <1>7 DEF BehindAll, OnTime
<1>8. BehindAll'
  BY <1>5, <1>7, EventsStep, JobsStep, IdsStep DEF BehindAll, OnTime
<1> QED
  BY <1>1, <1>4, <1>6, <1>8

(* The inductive invariant. *)
LEMMA DataInductive == Spec => []DataInv
<1>1. Init => DataInv
  BY DataInit
<1>2. DataInv /\ [Next]_vars => DataInv'
  BY DataStep
<1> QED
  BY <1>1, <1>2, PTL DEF Spec

(* Stores, jobs and writers keep their types; document-worker never claims  *)
(* a job more often than max_attempts, whatever overlaps.                   *)
THEOREM DataTypeCorrect == Spec => []TypeOK
<1>1. DataInv => TypeOK
  BY DEF DataInv
<1> QED
  BY <1>1, DataInductive, PTL

(* For any operations at the same time: when runErasureWorker has reported  *)
(* completion, no store holds anything of the customer, then or later, but  *)
(* for the writers that the property names.                                 *)
THEOREM CompletionIsClean == Spec => []CompletedMeansClean
<1>1. ASSUME DataInv, at = "completed", OnTime, NEW t \in Tables \ {"topic"} PROVE held[t] = Nothing
  <2>1. /\ WholeRows /\ BehindFinancial /\ BehindObjects /\ BehindProvider /\ BehindRecords
        /\ BehindSearch /\ BehindCustomer /\ BehindEvents /\ BehindJobs /\ BehindCustomerIds
    BY <1>1 DEF DataInv, Whole, Behind, BehindAll, OnTime
  <2>2. /\ PastFinancial /\ PastObjects /\ PastProvider /\ PastEvents /\ PastRecords
        /\ PastCache /\ PastSearch /\ PastCustomer
    BY <1>1 DEF PastFinancial, PastObjects, PastProvider, PastEvents, PastRecords, PastCache,
                PastSearch, PastCustomer
  <2>3. held["invoices"]["issued"] = {}
    <3>1. held["invoices"]["issued"] \in SUBSET Raw
      BY <1>1 DEF DataInv, TypeOK, Tables, Rows
    <3>2. "uuid" \notin held["invoices"]["issued"] /\ held["invoices"]["issued"] # {"pii"}
      BY <1>1, <2>1 DEF BehindCustomer, Blocked, WholeRows, Tables, Rows
    <3> QED
      BY <3>1, <3>2 DEF Raw
  <2>4. Empty("invoices") /\ Empty("documents") /\ Empty("outbox") /\ Empty("manifests")
    BY <1>1, <2>1, <2>2, <2>3
    DEF BehindFinancial, BehindObjects, BehindCustomer, BehindEvents, BehindJobs, Blocked, EmptyBut,
        Empty
  <2>5. Empty(t)
    BY <2>1, <2>2, <2>4 DEF BehindFinancial, BehindProvider, BehindRecords, BehindSearch,
                            BehindCustomer, BehindJobs, BehindCustomerIds, Tables
  <2>6. held[t] \in [Rows -> SUBSET Raw]
    BY <1>1 DEF DataInv, TypeOK
  <2> QED
    BY <2>5, <2>6 DEF Empty, Nothing
<1>2. DataInv => CompletedMeansClean
  BY <1>1 DEF CompletedMeansClean
<1> QED
  BY <1>2, DataInductive, PTL

(* What the consumers look up by, the original id, is there wherever an     *)
(* address is, unless a refund escaped.                                     *)
THEOREM AddressAlwaysHasId == Spec => []AddressNeverWithoutId
<1>1. DataInv => AddressNeverWithoutId
  BY DEF DataInv, Whole, WholeRows, AddressNeverWithoutId, Tables
<1> QED
  BY <1>1, DataInductive, PTL

(* deliverOne sends nothing after quiesceSubject: its letter has the id     *)
(* that it looks up.                                                        *)
THEOREM SuppressedGetNoMail == Spec => NoMailOnceSuppressed
<1>1. ASSUME DataInv, [Next]_vars, NEW r \in Rows, held["mail"][r] = {}, held'["mail"][r] # {},
             tombstone, "refund" \notin escaped
      PROVE  FALSE
  <2>1. held \in [Tables -> [Rows -> SUBSET Raw]]
    BY <1>1 DEF DataInv, TypeOK
  <2>2. PICK e \in Rows : Deliver(e)
    BY <1>1, <2>1, OnlyDeliverMails
  <2>3. held["letters"][e] \in SUBSET Raw /\ held["letters"][e] # {"pii"} /\ held["letters"][e] # {}
    BY <1>1, <2>1, <2>2 DEF DataInv, Whole, WholeRows, Tables, Deliver
  <2>4. Suppressed(held["letters"][e])
    BY <1>1, <2>3 DEF Suppressed, Raw
  <2>5. held' = [held EXCEPT !["letters"][e] = {}]
    BY <2>2, <2>4 DEF Deliver, Put
  <2> QED
    BY <1>1, <2>1, <2>5 DEF Tables
<1>2. DataInv /\ [Next]_vars =>
        [\A r \in Rows : held["mail"][r] = {} /\ held'["mail"][r] # {} =>
           ~tombstone \/ "refund" \in escaped]_vars
  BY <1>1
<1> QED
  BY <1>2, DataInductive, PTL DEF Spec, NoMailOnceSuppressed

(* verifyCompletion, which a retry repeats alone, fails for good only over  *)
(* the rows of a writer that escaped, or of an invoice.                     *)
THEOREM OnlyLateRowsBlock == Spec => []BlockedByLateRowsOnly
<1>1. ASSUME DataInv, at = "verify", escaped = {}, ~Blocked PROVE VerificationPasses
  <2>1. /\ WholeRows /\ BehindFinancial /\ BehindProvider /\ BehindRecords /\ BehindSearch
        /\ BehindCustomer
    BY <1>1 DEF DataInv, Whole, Behind
  <2>2. /\ PastFinancial /\ PastProvider /\ PastRecords /\ PastCache /\ PastSearch /\ PastCustomer
    BY <1>1 DEF PastFinancial, PastObjects, PastProvider, PastEvents, PastRecords, PastCache,
                PastSearch, PastCustomer
  <2>3. \A t \in {"customers", "payments", "notices", "letters", "cache", "search", "mail"} : Empty(t)
    BY <2>1, <2>2 DEF BehindFinancial, BehindProvider, BehindRecords, BehindSearch, BehindCustomer
  <2>4. \A r \in Rows : "uuid" \notin held["invoices"][r]
    BY <1>1, <2>1, <2>2 DEF BehindFinancial, EmptyBut, Empty, Blocked
  <2>5. held["mail"] = Nothing
    BY <1>1, <2>3 DEF DataInv, TypeOK, Empty, Nothing, Tables
  <2>6. \A t \in {"outbox", "jobs", "analytics"}, r \in Rows : held[t][r] # {"pii"}
    BY <2>1 DEF WholeRows, Tables
  <2> QED
    BY <2>3, <2>4, <2>5, <2>6 DEF VerificationPasses, Empty
<1>2. DataInv => BlockedByLateRowsOnly
  BY <1>1 DEF BlockedByLateRowsOnly, Blocked
<1> QED
  BY <1>2, DataInductive, PTL
=============================================================================
