--------------------------- MODULE MailSuppression ---------------------------
(***************************************************************************)
(* E-mail to one customer while that customer is being erased.             *)
(*                                                                         *)
(* notification-worker turns domain events into rows of email_deliveries   *)
(* (recordDelivery) and sends them through Mailpit (deliverOne); in        *)
(* privacy-service quiesceSubject sets the tombstone, and                  *)
(* eraseNotificationProvider redacts the rows and empties the mailbox.     *)
(* The advisory lock privacy:<merchant>:<customer> is held by a sender     *)
(* from its tombstone check until the outcome of the send is recorded.  It *)
(* is a session lock: it occupies a client of the pool that the statements *)
(* of the same sender need another client of.                              *)
(***************************************************************************)
EXTENDS Naturals, FiniteSets

CONSTANTS
  Events,        \* domain events that make an e-mail to the customer
  Senders,       \* runs of deliverOne at a time: the 250 ms timer starts more
  Eraser,        \* the privacy-service worker, in a process of its own
  NoOne,
  PoolSize,      \* max of the pool of notification-worker
  MaxAttempts,   \* email_deliveries.max_attempts
  MaxFaults      \* bound: errors and crashes that may happen in a behaviour

ASSUME MailAssumption ==
  /\ Eraser \notin Senders /\ NoOne \notin Senders \cup {Eraser}
  /\ PoolSize \in Nat \ {0}
  /\ MaxAttempts \in Nat \ {0}
  /\ MaxFaults \in Nat

VARIABLES
  tombstone,   \* the row in privacy.erased_subjects exists
  lock,        \* who holds the advisory lock
  inbox,       \* events that notification-worker has recorded
  open,        \* events whose recordDelivery has passed the tombstone check
  status,      \* email_deliveries.status, by the event of the row
  raw,         \* rows that hold the customer id and the address
  tries,       \* email_deliveries.attempts
  id,          \* provider_message_id: the attempt it is of, 0 for NULL
  mail,        \* messages in the mailbox: <<event, attempt>>
  indexed,     \* messages that the search finds
  lagging,     \* Mailpit's search finds a message only some time later
  pc,          \* where each sender is
  job,         \* the row it has claimed
  epc,         \* where the erasure is
  ids,         \* messages whose ids eraseNotificationProvider has read
  faults       \* errors and crashes so far

deliveries == <<inbox, open, status, raw, tries, id>>
mailpit == <<mail, indexed, lagging>>
sender == <<pc, job>>
erasure == <<epc, ids>>
vars == <<tombstone, lock, inbox, open, status, raw, tries, id, mail, indexed, lagging,
          pc, job, epc, ids, faults>>

(* A sender holds a client of the pool from here ... *)
Connected == {"wait", "check", "cancel", "send", "record", "notify", "failed"}
(* ... and the lock from here. *)
Inside == Connected \ {"wait"}
Erasing == {"read", "redact", "deleteIds", "deleteMail", "unlock"}
Messages == Events \X (1 .. MaxAttempts)

TypeOK ==
  /\ tombstone \in BOOLEAN
  /\ lock \in Senders \cup {Eraser, NoOne}
  /\ inbox \in SUBSET Events
  /\ open \in SUBSET Events
  /\ status \in [Events -> {"none", "pending", "processing", "delivered", "failed", "cancelled"}]
  /\ raw \in SUBSET Events
  /\ tries \in [Events -> 0 .. MaxAttempts]
  /\ id \in [Events -> 0 .. MaxAttempts]
  /\ mail \in SUBSET Messages
  /\ indexed \in SUBSET mail
  /\ lagging \in BOOLEAN
  /\ pc \in [Senders -> Connected \cup {"idle", "connect"}]
  /\ job \in [Senders -> Events]
  /\ epc \in Erasing \cup {"quiesce", "lock", "verify", "done"}
  /\ ids \in SUBSET Messages
  /\ faults \in 0 .. MaxFaults

Init ==
  /\ tombstone = FALSE
  /\ lock = NoOne
  /\ inbox = {}
  /\ open = {}
  /\ status = [e \in Events |-> "none"]
  /\ raw = {}
  /\ tries = [e \in Events |-> 0]
  /\ id = [e \in Events |-> 0]
  /\ mail = {}
  /\ indexed = {}
  /\ lagging \in BOOLEAN
  /\ pc = [s \in Senders |-> "idle"]
  /\ job \in [Senders -> Events]
  /\ epc = "quiesce"
  /\ ids = {}
  /\ faults = 0

Goto(s, next) == pc' = [pc EXCEPT ![s] = next]

Fault ==
  /\ faults < MaxFaults
  /\ faults' = faults + 1

AlwaysFree(p) == TRUE  \* mutant: the advisory lock does not exclude

(* pg_advisory_lock returns once nobody else holds the key. *)
Free(p) == lock = NoOne

(* pool.connect and pool.query wait until a client of the pool is free. *)
ClientFree == Cardinality({s \in Senders : pc[s] \in Connected}) < PoolSize

-----------------------------------------------------------------------------
(* recordDelivery: one transaction per event.  Kafka hands an event over    *)
(* again until the transaction has committed; the inbox drops duplicates.   *)

RecordCheck(e) ==
  /\ e \notin inbox \cup open
  /\ IF tombstone
     THEN inbox' = inbox \cup {e} /\ UNCHANGED open
     ELSE open' = open \cup {e} /\ UNCHANGED inbox
  /\ UNCHANGED <<tombstone, lock, status, raw, tries, id, mailpit, sender, erasure, faults>>

RecordCommit(e) ==
  /\ e \in open
  /\ inbox' = inbox \cup {e}
  /\ open' = open \ {e}
  /\ status' = [status EXCEPT ![e] = "pending"]
  /\ raw' = raw \cup {e}
  /\ UNCHANGED <<tombstone, lock, tries, id, mailpit, sender, erasure, faults>>

-----------------------------------------------------------------------------
(* deliverOne. *)

Redact(e) ==
  /\ status' = [status EXCEPT ![e] = "cancelled"]
  /\ raw' = raw \ {e}
  /\ id' = [id EXCEPT ![e] = 0]

ClaimSkips(s, e) ==  \* mutant: a claim passes over the rows of an erased customer
  /\ pc[s] = "idle"
  /\ ClientFree
  /\ ~tombstone
  /\ status[e] \in {"pending", "failed"}
  /\ tries[e] < MaxAttempts
  /\ status' = [status EXCEPT ![e] = "processing"]
  /\ tries' = [tries EXCEPT ![e] = @ + 1]
  /\ job' = [job EXCEPT ![s] = e]
  /\ Goto(s, "connect")
  /\ UNCHANGED <<tombstone, lock, inbox, open, raw, id, mailpit, erasure, faults>>

(* claimDelivery: the transaction keeps the row locked, and a claim that    *)
(* finds the tombstone cancels the delivery.                                *)
Claim(s, e) ==
  /\ pc[s] = "idle"
  /\ ClientFree
  /\ status[e] \in {"pending", "failed"}
  /\ tries[e] < MaxAttempts
  /\ IF tombstone
     THEN Redact(e) /\ UNCHANGED <<tries, sender>>
     ELSE /\ status' = [status EXCEPT ![e] = "processing"]
          /\ tries' = [tries EXCEPT ![e] = @ + 1]
          /\ job' = [job EXCEPT ![s] = e]
          /\ Goto(s, "connect")
          /\ UNCHANGED <<raw, id>>
  /\ UNCHANGED <<tombstone, lock, inbox, open, mailpit, erasure, faults>>

(* withAdvisoryLock takes a client of the pool, then waits for the lock. *)
Connect(s) ==
  /\ pc[s] = "connect"
  /\ ClientFree
  /\ Goto(s, "wait")
  /\ UNCHANGED <<tombstone, lock, deliveries, mailpit, job, erasure, faults>>

Enter(s) ==
  /\ pc[s] = "wait"
  /\ Free(s)
  /\ lock' = s
  /\ Goto(s, "check")
  /\ UNCHANGED <<tombstone, deliveries, mailpit, job, erasure, faults>>

CheckOnlyAtClaim(s) ==  \* mutant: the tombstone is not read again under the lock
  /\ pc[s] = "check"
  /\ ClientFree
  /\ Goto(s, "send")
  /\ UNCHANGED <<tombstone, lock, deliveries, mailpit, job, erasure, faults>>

Check(s) ==
  /\ pc[s] = "check"
  /\ ClientFree
  /\ Goto(s, IF tombstone THEN "cancel" ELSE "send")
  /\ UNCHANGED <<tombstone, lock, deliveries, mailpit, job, erasure, faults>>

Leave(s) ==
  /\ Goto(s, "idle")
  /\ lock' = IF lock = s THEN NoOne ELSE lock

Cancel(s) ==
  /\ pc[s] = "cancel"
  /\ ClientFree
  /\ Redact(job[s])
  /\ Leave(s)
  /\ UNCHANGED <<tombstone, inbox, open, tries, mailpit, job, erasure, faults>>

(* sendMailpitEmail: the message is stored, and the reply may get lost. *)
Send(s) ==
  /\ pc[s] = "send"
  /\ LET message == <<job[s], tries[job[s]]>> IN
       /\ mail' = mail \cup {message}
       /\ indexed' = IF lagging THEN indexed ELSE indexed \cup {message}
       /\ UNCHANGED lagging
  /\ \/ Goto(s, "record") /\ UNCHANGED faults
     \/ Goto(s, "failed") /\ Fault
  /\ UNCHANGED <<tombstone, lock, deliveries, job, erasure>>

(* Both outcomes are written only to a row that is still processing. *)
RecordDelivered(s) ==
  /\ pc[s] = "record"
  /\ ClientFree
  /\ LET e == job[s] IN
       IF status[e] = "processing"
       THEN /\ status' = [status EXCEPT ![e] = "delivered"]
            /\ id' = [id EXCEPT ![e] = tries[e]]
       ELSE UNCHANGED <<status, id>>
  /\ Goto(s, "notify")
  /\ UNCHANGED <<tombstone, lock, inbox, open, raw, tries, mailpit, job, erasure, faults>>

KeepLock(s) ==  \* mutant: the lock is kept after the send
  /\ pc[s] = "notify"
  /\ ClientFree
  /\ Goto(s, "idle")
  /\ UNCHANGED <<tombstone, lock, deliveries, mailpit, job, erasure, faults>>

MarkNotification(s) ==
  /\ pc[s] = "notify"
  /\ ClientFree
  /\ Leave(s)
  /\ UNCHANGED <<tombstone, deliveries, mailpit, job, erasure, faults>>

RecordFailed(s) ==
  /\ pc[s] = "failed"
  /\ ClientFree
  /\ status' = IF status[job[s]] = "processing"
               THEN [status EXCEPT ![job[s]] = "failed"] ELSE status
  /\ Leave(s)
  /\ UNCHANGED <<tombstone, inbox, open, raw, tries, id, mailpit, job, erasure, faults>>

(* The send or the update after it fails: the delivery is to be retried.    *)
(* Any other error leaves the sender with the row as it was.                *)
SenderThrows(s) ==
  /\ Fault
  /\ \/ pc[s] \in {"send", "record", "notify"} /\ Goto(s, "failed") /\ UNCHANGED lock
     \/ pc[s] \in {"connect", "wait", "check", "cancel", "failed"} /\ Leave(s)
  /\ UNCHANGED <<tombstone, deliveries, mailpit, job, erasure>>

(* notification-worker dies and comes back: its transactions are rolled     *)
(* back and its sessions, with their locks, are gone.                       *)
SenderCrash ==
  /\ Fault
  /\ pc' = [s \in Senders |-> "idle"]
  /\ lock' = IF lock \in Senders THEN NoOne ELSE lock
  /\ open' = {}
  /\ UNCHANGED <<tombstone, inbox, status, raw, tries, id, mailpit, job, erasure>>

SenderStep(s) ==
  \/ \E e \in Events : Claim(s, e)
  \/ Connect(s) \/ Enter(s) \/ Check(s) \/ Cancel(s) \/ Send(s)
  \/ RecordDelivered(s) \/ MarkNotification(s) \/ RecordFailed(s)

-----------------------------------------------------------------------------
(* The erasure of the customer. *)

(* quiesceSubject takes the same lock for its transaction. *)
Quiesce ==
  /\ epc = "quiesce"
  /\ Free(Eraser)
  /\ tombstone' = TRUE
  /\ epc' = "lock"
  /\ UNCHANGED <<lock, deliveries, mailpit, sender, ids, faults>>

EraserEnter ==
  /\ epc = "lock"
  /\ Free(Eraser)
  /\ lock' = Eraser
  /\ epc' = "read"
  /\ UNCHANGED <<tombstone, deliveries, mailpit, sender, ids, faults>>

ReadIds ==
  /\ epc = "read"
  /\ ids' = {<<e, id[e]>> : e \in {d \in raw : id[d] # 0}}
  /\ epc' = "redact"
  /\ UNCHANGED <<tombstone, lock, deliveries, mailpit, sender, faults>>

RedactDeliveries ==
  /\ epc = "redact"
  /\ status' = [e \in Events |-> IF e \in raw THEN "cancelled" ELSE status[e]]
  /\ id' = [e \in Events |-> IF e \in raw THEN 0 ELSE id[e]]
  /\ raw' = {}
  /\ epc' = "deleteIds"
  /\ UNCHANGED <<tombstone, lock, inbox, open, tries, mailpit, sender, ids, faults>>

DeleteUnindexed(messages) ==  \* mutant: deleted messages are still found by the search
  /\ mail' = mail \ messages
  /\ UNCHANGED <<indexed, lagging>>

Delete(messages) ==
  /\ mail' = mail \ messages
  /\ indexed' = indexed \ messages
  /\ UNCHANGED lagging

KeepByIds ==  \* mutant: only the search is used to delete
  /\ epc = "deleteIds"
  /\ epc' = "deleteMail"
  /\ UNCHANGED <<tombstone, lock, deliveries, mailpit, sender, ids, faults>>

DeleteByIds ==
  /\ epc = "deleteIds"
  /\ Delete(ids)
  /\ epc' = "deleteMail"
  /\ UNCHANGED <<tombstone, lock, deliveries, sender, ids, faults>>

(* The messages that the search by recipient finds. *)
DeleteByRecipient ==
  /\ epc = "deleteMail"
  /\ Delete(indexed)
  /\ epc' = "unlock"
  /\ UNCHANGED <<tombstone, lock, deliveries, sender, ids, faults>>

EraserLeave ==
  /\ epc = "unlock"
  /\ lock' = IF lock = Eraser THEN NoOne ELSE lock
  /\ epc' = "verify"
  /\ UNCHANGED <<tombstone, deliveries, mailpit, sender, ids, faults>>

(* verifyCompletion: otherwise it throws, and a retry starts it again. *)
Verify ==
  /\ epc = "verify"
  /\ raw = {}
  /\ indexed = {}
  /\ epc' = "done"
  /\ UNCHANGED <<tombstone, lock, deliveries, mailpit, sender, ids, faults>>

(* A call of the participant fails or privacy-service dies: the lock is     *)
(* released, and the retry runs the participant from its beginning.         *)
EraserFails ==
  /\ epc \in Erasing
  /\ Fault
  /\ epc' = "lock"
  /\ lock' = IF lock = Eraser THEN NoOne ELSE lock
  /\ UNCHANGED <<tombstone, deliveries, mailpit, sender, ids>>

EraserStep ==
  \/ Quiesce \/ EraserEnter \/ ReadIds \/ RedactDeliveries \/ DeleteByIds
  \/ DeleteByRecipient \/ EraserLeave \/ Verify

(* Mailpit's search index catches up. *)
IndexMessage ==
  /\ indexed # mail
  /\ indexed' = mail
  /\ UNCHANGED <<tombstone, lock, deliveries, mail, lagging, sender, erasure, faults>>

-----------------------------------------------------------------------------
Next ==
  \/ \E e \in Events : RecordCheck(e) \/ RecordCommit(e)
  \/ \E s \in Senders : SenderStep(s) \/ SenderThrows(s)
  \/ SenderCrash
  \/ EraserStep
  \/ EraserFails
  \/ IndexMessage

Spec == Init /\ [][Next]_vars

(* An open transaction ends, the timer and the event loop run the senders,  *)
(* PostgreSQL grants a contended lock in turn, and the erasure worker goes  *)
(* on with its participant.                                                 *)
Fairness ==
  /\ \A e \in Events : WF_vars(RecordCommit(e))
  /\ \A s \in Senders : SF_vars(SenderStep(s))
  /\ WF_vars(EraserStep)

FairSpec == Spec /\ Fairness

-----------------------------------------------------------------------------
(* docs/privacy-and-retention.md: pending work, retries and delayed events  *)
(* do not reach the customer: no message is sent once the tombstone is set, *)
(* although each sender looked before it sent.                              *)
NoMailAfterSuppression == [][tombstone => mail' \subseteq mail]_vars

(* docs/privacy-and-retention.md: the messages in Mailpit "must be removed  *)
(* or made free of the erased customer's data before completion", and none  *)
(* comes back, whatever was being sent, retried or lost meanwhile.  A       *)
(* message whose id was lost can be found only by the search.               *)
MailboxErased == epc = "done" /\ ~lagging => mail = {}

(* mailpit.ts: known messages are removed "without relying on the           *)
(* eventually consistent search index".                                     *)
KnownMailErased == epc = "done" /\ faults = 0 => mail = {}

(* A delivery whose transaction committed after the erasure is found by the *)
(* next claim, which redacts it: after completion no row keeps the address. *)
LateDeliveriesRedacted == (epc = "done") ~> [](raw = {})

(* pool.ts: the lock "serializes work"; a sender that has claimed a row     *)
(* gets through it and lets the next one in.                                *)
SendersReturn == \A s \in Senders : pc[s] # "idle" ~> pc[s] = "idle"
=============================================================================
