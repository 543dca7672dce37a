------------------------ MODULE MailSuppressionProofs ------------------------
(***************************************************************************)
(* For any number of events, senders, pool clients, attempts and faults:   *)
(* no message is sent once the tombstone is set, and, when the search is   *)
(* up to date, the mailbox is empty from completion on.  The argument is   *)
(* the advisory lock: a sender that found no tombstone still holds it when *)
(* it sends, so quiesceSubject, which needs it, cannot come in between.    *)
(* With a search that lags, the mailbox is empty if nothing failed: every  *)
(* message then has its id in a row, or a sender that holds the lock.      *)
(***************************************************************************)
EXTENDS MailSuppression, TLAPS

(* A sender at work has counted its attempt. *)
Counted == \A s \in Senders : pc[s] # "idle" => tries[job[s]] >= 1

(* The lock keeps every two senders, and senders and eraser, apart. *)
LockHeld == \A s \in Senders : pc[s] \in Inside => lock = s

(* A tombstone check made under the lock is still true when the mail goes. *)
CheckHolds == \A s \in Senders : pc[s] = "send" => ~tombstone

(* The verification has looked at a mailbox that nobody fills any more. *)
DoneIsEmpty ==
  /\ epc # "quiesce" => tombstone
  /\ ~lagging => indexed = mail
  /\ ~lagging /\ epc = "done" => mail = {}

MailInv == TypeOK /\ Counted /\ LockHeld /\ CheckHolds /\ DoneIsEmpty

(* Every step keeps the types. *)
LEMMA TypeStep ==
  ASSUME TypeOK, Counted, [Next]_vars
  PROVE  TypeOK'
<1> USE MailAssumption DEF TypeOK, Goto, Connected, Inside, Erasing, Messages, deliveries, mailpit, sender, erasure
<1>1. ASSUME NEW e \in Events, RecordCheck(e) \/ RecordCommit(e) PROVE TypeOK'
  BY <1>1 DEF RecordCheck, RecordCommit
<1>2. ASSUME NEW s \in Senders, NEW e \in Events, Claim(s, e) PROVE TypeOK'
  <2>1. CASE tombstone
    BY <1>2, <2>1 DEF Claim, Redact
  <2>2. CASE ~tombstone
    BY <1>2, <2>2 DEF Claim
  <2> QED
    BY <2>1, <2>2
<1>3. ASSUME NEW s \in Senders, Connect(s) \/ Enter(s) \/ Check(s) PROVE TypeOK'
  BY <1>3 DEF Connect, Enter, Check
<1>4. ASSUME NEW s \in Senders, Cancel(s) PROVE TypeOK'
  BY <1>4 DEF Cancel, Redact, Leave
<1>5. ASSUME NEW s \in Senders, Send(s) PROVE TypeOK'
  <2>1. job[s] \in Events /\ tries[job[s]] \in 1 .. MaxAttempts
    BY <1>5 DEF Send, Counted
  <2> QED
    BY <1>5, <2>1 DEF Send, Fault
<1>6. ASSUME NEW s \in Senders, RecordDelivered(s) PROVE TypeOK'
  BY <1>6 DEF RecordDelivered
<1>7. ASSUME NEW s \in Senders, MarkNotification(s) PROVE TypeOK'
  BY <1>7 DEF MarkNotification, Leave
<1>8. ASSUME NEW s \in Senders, RecordFailed(s) PROVE TypeOK'
  BY <1>8 DEF RecordFailed, Leave
<1>9. ASSUME NEW s \in Senders, SenderThrows(s) PROVE TypeOK'
  BY <1>9 DEF SenderThrows, Leave, Fault
<1>10. CASE SenderCrash
  BY <1>10 DEF SenderCrash, Fault
<1>11. CASE Quiesce \/ EraserEnter
  BY <1>11 DEF Quiesce, EraserEnter
<1>12. CASE ReadIds
  BY <1>12 DEF ReadIds
<1>13. CASE RedactDeliveries
  BY <1>13 DEF RedactDeliveries
<1>14. CASE DeleteByIds \/ DeleteByRecipient
  BY <1>14 DEF DeleteByIds, DeleteByRecipient, Delete
<1>15. CASE EraserLeave \/ Verify \/ EraserFails \/ IndexMessage
  BY <1>15 DEF EraserLeave, Verify, EraserFails, IndexMessage, Fault
<1>16. CASE UNCHANGED vars
  BY <1>16 DEF vars
<1> QED
  BY <1>1, <1>2, <1>3, <1>4, <1>5, <1>6, <1>7, <1>8, <1>9, <1>10, <1>11, <1>12,
     <1>13, <1>14, <1>15, <1>16 DEF Next, SenderStep, EraserStep

(* A claim counts the attempt, and nothing takes it back. *)
LEMMA CountedStep ==
  ASSUME TypeOK, Counted, [Next]_vars
  PROVE  Counted'
<1> USE MailAssumption DEF TypeOK, Counted, Goto, deliveries, mailpit, sender, erasure
<1>1. ASSUME NEW s \in Senders, NEW e \in Events, Claim(s, e) PROVE Counted'
  <2>1. CASE tombstone
    BY <1>1, <2>1 DEF Claim
  <2>2. CASE ~tombstone
    BY <1>1, <2>2 DEF Claim
  <2> QED
    BY <2>1, <2>2
<1>2. ASSUME NEW s \in Senders,
             \/ Connect(s) \/ Enter(s) \/ Check(s) \/ Cancel(s) \/ Send(s)
             \/ RecordDelivered(s) \/ MarkNotification(s) \/ RecordFailed(s) \/ SenderThrows(s)
      PROVE  Counted'
  <2>1. tries' = tries /\ job' = job
    BY <1>2 DEF Connect, Enter, Check, Cancel, Send, RecordDelivered, MarkNotification,
                RecordFailed, SenderThrows
  <2>2. pc[s] # "idle" /\ \A t \in Senders \ {s} : pc'[t] = pc[t]
    BY <1>2 DEF Connect, Enter, Check, Cancel, Send, RecordDelivered, MarkNotification,
                RecordFailed, SenderThrows, Leave
  <2> QED
    BY <2>1, <2>2
<1>3. CASE SenderCrash
  BY <1>3 DEF SenderCrash
<1>4. CASE EraserStep \/ EraserFails \/ IndexMessage
  BY <1>4 DEF EraserStep, Quiesce, EraserEnter, ReadIds, RedactDeliveries, DeleteByIds,
              DeleteByRecipient, EraserLeave, Verify, EraserFails, IndexMessage
<1>5. ASSUME NEW e \in Events, RecordCheck(e) \/ RecordCommit(e) PROVE Counted'
  BY <1>5 DEF RecordCheck, RecordCommit
<1>6. CASE UNCHANGED vars
  BY <1>6 DEF vars
<1> QED
  BY <1>1, <1>2, <1>3, <1>4, <1>5, <1>6 DEF Next, SenderStep

(* Only the holder of the lock is between its check and the recording of    *)
(* the outcome; the tombstone is set only while nobody holds the lock.      *)
LEMMA LockStep ==
  ASSUME TypeOK, LockHeld, CheckHolds, [Next]_vars
  PROVE  LockHeld' /\ CheckHolds'
<1> USE MailAssumption
    DEF TypeOK, LockHeld, CheckHolds, Goto, Free, Connected, Inside, deliveries, mailpit, sender, erasure
<1>1. ASSUME NEW s \in Senders, NEW e \in Events, Claim(s, e) PROVE LockHeld' /\ CheckHolds'
  <2>1. CASE tombstone
    BY <1>1, <2>1 DEF Claim
  <2>2. CASE ~tombstone
    BY <1>1, <2>2 DEF Claim
  <2> QED
    BY <2>1, <2>2
<1>2. ASSUME NEW s \in Senders, Connect(s) \/ Enter(s) \/ Check(s)
      PROVE  LockHeld' /\ CheckHolds'
  BY <1>2 DEF Connect, Enter, Check
<1>3. ASSUME NEW s \in Senders, Send(s) \/ RecordDelivered(s)
      PROVE  LockHeld' /\ CheckHolds'
  BY <1>3 DEF Send, RecordDelivered
<1>4. ASSUME NEW s \in Senders, Cancel(s) \/ MarkNotification(s) \/ RecordFailed(s)
      PROVE  LockHeld' /\ CheckHolds'
  BY <1>4 DEF Cancel, MarkNotification, RecordFailed, Leave
<1>5. ASSUME NEW s \in Senders, SenderThrows(s) PROVE LockHeld' /\ CheckHolds'
  BY <1>5 DEF SenderThrows, Leave
<1>6. CASE SenderCrash
  BY <1>6 DEF SenderCrash
<1>7. CASE Quiesce
  BY <1>7 DEF Quiesce
<1>8. CASE EraserEnter \/ EraserLeave \/ EraserFails
  BY <1>8 DEF EraserEnter, EraserLeave, EraserFails
<1>9. CASE ReadIds \/ RedactDeliveries \/ DeleteByIds \/ DeleteByRecipient \/ Verify \/ IndexMessage
  BY <1>9 DEF ReadIds, RedactDeliveries, DeleteByIds, DeleteByRecipient, Verify, IndexMessage
<1>10. ASSUME NEW e \in Events, RecordCheck(e) \/ RecordCommit(e)
       PROVE  LockHeld' /\ CheckHolds'
  BY <1>10 DEF RecordCheck, RecordCommit
<1>11. CASE UNCHANGED vars
  BY <1>11 DEF vars
<1> QED
  BY <1>1, <1>2, <1>3, <1>4, <1>5, <1>6, <1>7, <1>8, <1>9, <1>10, <1>11
  DEF Next, SenderStep, EraserStep

(* A step that adds a message found no tombstone. *)
LEMMA MailStep ==
  ASSUME TypeOK, CheckHolds, [Next]_vars
  PROVE  tombstone => mail' \subseteq mail
<1> USE DEF mailpit
<1>1. ASSUME NEW s \in Senders, Send(s) PROVE ~tombstone
  BY <1>1 DEF Send, CheckHolds
<1>2. ASSUME NEW s \in Senders,
             \/ \E e \in Events : Claim(s, e)
             \/ Connect(s) \/ Enter(s) \/ Check(s) \/ Cancel(s) \/ RecordDelivered(s)
             \/ MarkNotification(s) \/ RecordFailed(s) \/ SenderThrows(s)
      PROVE  mail' = mail
  BY <1>2 DEF Claim, Connect, Enter, Check, Cancel, RecordDelivered, MarkNotification,
              RecordFailed, SenderThrows
<1>3. ASSUME (\E e \in Events : RecordCheck(e) \/ RecordCommit(e)) \/ SenderCrash
      PROVE  mail' = mail
  BY <1>3 DEF RecordCheck, RecordCommit, SenderCrash
<1>4. ASSUME DeleteByIds \/ DeleteByRecipient PROVE mail' \subseteq mail
  BY <1>4 DEF DeleteByIds, DeleteByRecipient, Delete
<1>5. ASSUME \/ Quiesce \/ EraserEnter \/ ReadIds \/ RedactDeliveries \/ EraserLeave
             \/ Verify \/ EraserFails \/ IndexMessage
      PROVE  mail' = mail
  BY <1>5 DEF Quiesce, EraserEnter, ReadIds, RedactDeliveries, EraserLeave, Verify,
              EraserFails, IndexMessage
<1>6. CASE UNCHANGED vars
  BY <1>6 DEF vars
<1> QED
  BY <1>1, <1>2, <1>3, <1>4, <1>5, <1>6 DEF Next, SenderStep, EraserStep

(* The tombstone is set before the erasure goes on and is never removed; an *)
(* up-to-date index follows the mailbox; completion saw it empty.           *)
LEMMA DoneStep ==
  ASSUME TypeOK, CheckHolds, DoneIsEmpty, [Next]_vars
  PROVE  DoneIsEmpty'
<1> USE DEF DoneIsEmpty, TypeOK, Erasing, mailpit, erasure
<1>1. ASSUME NEW s \in Senders, Send(s) PROVE DoneIsEmpty'
  BY <1>1 DEF Send, CheckHolds
<1>2. ASSUME NEW s \in Senders,
             \/ \E e \in Events : Claim(s, e)
             \/ Connect(s) \/ Enter(s) \/ Check(s) \/ Cancel(s) \/ RecordDelivered(s)
             \/ MarkNotification(s) \/ RecordFailed(s) \/ SenderThrows(s)
      PROVE  DoneIsEmpty'
  BY <1>2 DEF Claim, Connect, Enter, Check, Cancel, RecordDelivered, MarkNotification,
              RecordFailed, SenderThrows
<1>3. ASSUME (\E e \in Events : RecordCheck(e) \/ RecordCommit(e)) \/ SenderCrash
      PROVE  DoneIsEmpty'
  BY <1>3 DEF RecordCheck, RecordCommit, SenderCrash
<1>4. ASSUME DeleteByIds \/ DeleteByRecipient PROVE DoneIsEmpty'
  BY <1>4 DEF DeleteByIds, DeleteByRecipient, Delete
<1>5. ASSUME \/ Quiesce \/ EraserEnter \/ ReadIds \/ RedactDeliveries \/ EraserLeave
             \/ Verify \/ EraserFails \/ IndexMessage
      PROVE  DoneIsEmpty'
  BY <1>5 DEF Quiesce, EraserEnter, ReadIds, RedactDeliveries, EraserLeave, Verify,
              EraserFails, IndexMessage
<1>6. CASE UNCHANGED vars
  BY <1>6 DEF vars
<1> QED
  BY <1>1, <1>2, <1>3, <1>4, <1>5, <1>6 DEF Next, SenderStep, EraserStep

(* The inductive invariant. *)
LEMMA MailInductive == Spec => []MailInv
<1>1. Init => MailInv
  <2> SUFFICES ASSUME Init PROVE MailInv
    OBVIOUS
  <2>1. TypeOK
    <3>1. 0 \in 0 .. MaxAttempts /\ 0 \in 0 .. MaxFaults
      BY MailAssumption
    <3>2. mail \in SUBSET Messages /\ indexed \in SUBSET mail /\ ids \in SUBSET Messages
      BY DEF Init
    <3>3. /\ tries \in [Events -> 0 .. MaxAttempts] /\ id \in [Events -> 0 .. MaxAttempts]
          /\ faults \in 0 .. MaxFaults
      BY <3>1, Zenon DEF Init
    <3> QED
      BY <3>2, <3>3 DEF Init, TypeOK
  <2>2. Counted /\ LockHeld /\ CheckHolds /\ DoneIsEmpty
    BY DEF Init, Counted, LockHeld, CheckHolds, DoneIsEmpty, Inside, Connected
  <2> QED
    BY <2>1, <2>2 DEF MailInv
<1>2. MailInv /\ [Next]_vars => MailInv'
  BY TypeStep, CountedStep, LockStep, DoneStep DEF MailInv
<1> QED
  BY <1>1, <1>2, PTL DEF Spec

(* The state of deliveries, mailbox, senders and eraser keeps its types; no *)
(* delivery is attempted more than max_attempts times.                      *)
THEOREM MailTypeCorrect == Spec => []TypeOK
<1>1. MailInv => TypeOK
  BY DEF MailInv
<1> QED
  BY <1>1, MailInductive, PTL

(* deliverOne sends nothing once quiesceSubject has set the tombstone, for  *)
(* any number of overlapping senders, crashes and lost replies.             *)
THEOREM SuppressionStopsMail == Spec => NoMailAfterSuppression
<1>1. MailInv /\ [Next]_vars => [tombstone => mail' \subseteq mail]_vars
  BY MailStep DEF MailInv
<1> QED
  BY <1>1, MailInductive, PTL DEF Spec, NoMailAfterSuppression

(* With a search that finds every message, the mailbox is empty when        *)
(* verifyCompletion passes and stays empty.                                 *)
THEOREM CompletionLeavesNoMail == Spec => []MailboxErased
<1>1. MailInv => MailboxErased
  BY DEF MailInv, DoneIsEmpty, MailboxErased
<1> QED
  BY <1>1, MailInductive, PTL
-----------------------------------------------------------------------------
(* Without faults Mailpit's search is not needed.  A sender works on a row *)
(* of its own from its claim to the recording of the outcome, so that the  *)
(* id of a message is on record, or with a sender that holds the lock.     *)

AtWork == {"connect", "wait", "check", "cancel", "send", "record"}
Unsent(e) == \A m \in mail : m[1] # e

(* A row is inserted once, and has no message before it is claimed.        *)
RowsOnce ==
  /\ open \cap inbox = {} /\ raw \subseteq inbox
  /\ \A e \in Events : status[e] # "none" => e \in inbox
  /\ \A e \in Events : status[e] \in {"none", "pending"} => Unsent(e)
  /\ \A e \in Events : status[e] \in {"pending", "processing", "delivered"} => e \in raw

(* A claimed row is its sender's alone, and no attempt has failed.         *)
OwnRows ==
  /\ \A e \in Events : status[e] # "failed"
  /\ \A s \in Senders : pc[s] # "failed"
  /\ \A s \in Senders : pc[s] \in AtWork => status[job[s]] \in {"processing", "cancelled"}
  /\ \A s, t \in Senders : s # t /\ pc[s] \in AtWork /\ pc[t] \in AtWork => job[s] # job[t]
  /\ \A s \in Senders : pc[s] \in AtWork \ {"record"} => Unsent(job[s])

(* A row is cancelled only after the tombstone, a message recorded before. *)
CancelledLater ==
  /\ \A e \in Events : status[e] = "cancelled" => tombstone
  /\ \A s \in Senders : pc[s] = "cancel" => tombstone
  /\ \A s \in Senders : pc[s] = "record" => ~tombstone
  /\ epc \in Erasing => lock = Eraser

OnRecord(m) == status[m[1]] = "delivered" /\ id[m[1]] = m[2]
InFlight(m) == \E s \in Senders : pc[s] = "record" /\ job[s] = m[1] /\ tries[m[1]] = m[2]

(* Every message is known by its id until it has been deleted.             *)
AllKnown ==
  /\ epc \in {"quiesce", "lock", "read"} => \A m \in mail : OnRecord(m) \/ InFlight(m)
  /\ epc \in {"redact", "deleteIds"} => mail \subseteq ids
  /\ epc \in {"deleteMail", "unlock", "verify", "done"} => mail = {}

KnownInv == faults = 0 => RowsOnce /\ OwnRows /\ CancelledLater /\ AllKnown

(* A step without a fault, none before it.  The senders. *)
LEMMA KnownSenderStep ==
  ASSUME MailInv, RowsOnce, OwnRows, CancelledLater, AllKnown,
         NEW s \in Senders, SenderStep(s), faults' = faults
  PROVE  RowsOnce' /\ OwnRows' /\ CancelledLater' /\ AllKnown'
<1> USE MailAssumption DEF MailInv, TypeOK, LockHeld, CheckHolds, DoneIsEmpty, Connected, Inside,
      Erasing, Messages, AtWork, Unsent, Goto, deliveries, mailpit, sender, erasure
<1>1. ASSUME NEW e \in Events, Claim(s, e), tombstone
      PROVE  RowsOnce' /\ OwnRows' /\ CancelledLater' /\ AllKnown'
  <2>1. status[e] = "pending" /\ Unsent(e)
    BY <1>1 DEF Claim, OwnRows, RowsOnce
  <2>2. RowsOnce' /\ OwnRows' /\ CancelledLater'
    BY <1>1, <2>1 DEF Claim, Redact, RowsOnce, OwnRows, CancelledLater
  <2>3. ASSUME NEW m \in mail, OnRecord(m) \/ InFlight(m) PROVE (OnRecord(m) \/ InFlight(m))'
    BY <1>1, <2>1, <2>3 DEF Claim, Redact, OnRecord, InFlight
  <2> QED
    BY <1>1, <2>2, <2>3 DEF Claim, Redact, AllKnown
<1>2. ASSUME NEW e \in Events, Claim(s, e), ~tombstone
      PROVE  RowsOnce' /\ OwnRows' /\ CancelledLater' /\ AllKnown'
  <2>1. status[e] = "pending" /\ Unsent(e)
    BY <1>2 DEF Claim, OwnRows, RowsOnce
  <2>2. RowsOnce' /\ CancelledLater'
    BY <1>2, <2>1 DEF Claim, RowsOnce, CancelledLater
  <2>3. OwnRows'
    BY <1>2, <2>1 DEF Claim, OwnRows
  <2>4. ASSUME NEW m \in mail, OnRecord(m) \/ InFlight(m) PROVE (OnRecord(m) \/ InFlight(m))'
    <3>1. m[1] # e
      BY <2>1
    <3>2. \A t \in Senders : pc[t] = "record" => t # s
      BY <1>2 DEF Claim
    <3> QED
      BY <1>2, <2>4, <3>1, <3>2 DEF Claim, OnRecord, InFlight
  <2> QED
    BY <1>2, <2>2, <2>3, <2>4 DEF Claim, AllKnown
<1>3. ASSUME Connect(s) \/ Enter(s) \/ Check(s)
      PROVE  RowsOnce' /\ OwnRows' /\ CancelledLater' /\ AllKnown'
  <2>1. /\ UNCHANGED <<deliveries, mailpit, job, erasure, tombstone>>
        /\ pc[s] \in AtWork \ {"record"} /\ pc'[s] \in AtWork \ {"record"}
        /\ \A t \in Senders \ {s} : pc'[t] = pc[t]
        /\ lock = Eraser => lock' = Eraser
        /\ pc'[s] = "cancel" => tombstone
    BY <1>3 DEF Connect, Enter, Check, Free
  <2>2. RowsOnce' /\ OwnRows' /\ CancelledLater'
    BY <2>1 DEF RowsOnce, OwnRows, CancelledLater
  <2>3. ASSUME NEW m \in mail, OnRecord(m) \/ InFlight(m) PROVE (OnRecord(m) \/ InFlight(m))'
    BY <2>1, <2>3 DEF OnRecord, InFlight
  <2> QED
    BY <2>1, <2>2, <2>3 DEF AllKnown
<1>4. ASSUME Cancel(s)
      PROVE  RowsOnce' /\ OwnRows' /\ CancelledLater' /\ AllKnown'
  <2>1. Unsent(job[s])
    BY <1>4 DEF Cancel, OwnRows
  <2>2. lock = s /\ s # Eraser
    BY <1>4 DEF Cancel
  <2>3. RowsOnce'
    BY <1>4, <2>1 DEF Cancel, Redact, RowsOnce, OwnRows
  <2>4. OwnRows'
    BY <1>4, <2>1 DEF Cancel, Redact, Leave, OwnRows
  <2>5. ASSUME NEW m \in mail, OnRecord(m) \/ InFlight(m) PROVE (OnRecord(m) \/ InFlight(m))'
    BY <1>4, <2>1, <2>5 DEF Cancel, Redact, Leave, OnRecord, InFlight
  <2>6. CancelledLater'
    BY <1>4, <2>2 DEF Cancel, Redact, Leave, CancelledLater
  <2> QED
    BY <1>4, <2>3, <2>4, <2>5, <2>6 DEF Cancel, AllKnown
<1>5. ASSUME Send(s)
      PROVE  RowsOnce' /\ OwnRows' /\ CancelledLater' /\ AllKnown'
  <2>1. pc[s] = "send" /\ pc' = [pc EXCEPT ![s] = "record"] /\ mail' = mail \cup {<<job[s], tries[job[s]]>>}
    BY <1>5 DEF Send, Fault
  <2>2. UNCHANGED <<tombstone, lock, deliveries, job, erasure>>
    BY <1>5 DEF Send
  <2>3. ~tombstone /\ status[job[s]] = "processing" /\ Unsent(job[s])
    BY <2>1 DEF OwnRows, CancelledLater
  <2>4. RowsOnce' /\ OwnRows' /\ CancelledLater'
    BY <2>1, <2>2, <2>3 DEF RowsOnce, OwnRows, CancelledLater
  <2>5. ASSUME NEW m \in mail, OnRecord(m) \/ InFlight(m) PROVE (OnRecord(m) \/ InFlight(m))'
    BY <2>1, <2>2, <2>5 DEF OnRecord, InFlight
  <2>6. ASSUME NEW m \in mail' \ mail PROVE InFlight(m)'
    BY <2>1, <2>2, <2>6 DEF InFlight
  <2>7. epc = "quiesce"
    BY <2>3
  <2> QED
    BY <2>2, <2>4, <2>5, <2>6, <2>7 DEF AllKnown
<1>6. ASSUME RecordDelivered(s)
      PROVE  RowsOnce' /\ OwnRows' /\ CancelledLater' /\ AllKnown'
  <2>1. ~tombstone /\ status[job[s]] = "processing" /\ epc = "quiesce"
    BY <1>6 DEF RecordDelivered, OwnRows, CancelledLater
  <2>2. RowsOnce' /\ OwnRows' /\ CancelledLater'
    BY <1>6, <2>1 DEF RecordDelivered, RowsOnce, OwnRows, CancelledLater
  <2>3. ASSUME NEW m \in mail, OnRecord(m) PROVE OnRecord(m)'
    BY <1>6, <2>1, <2>3 DEF RecordDelivered, OnRecord
  <2>4. ASSUME NEW m \in mail, InFlight(m) PROVE (OnRecord(m) \/ InFlight(m))'
    <3>1. PICK t \in Senders : pc[t] = "record" /\ job[t] = m[1] /\ tries[m[1]] = m[2]
      BY <2>4 DEF InFlight
    <3>2. CASE t = s
      BY <1>6, <2>1, <3>1, <3>2 DEF RecordDelivered, OnRecord
    <3>3. CASE t # s
      BY <1>6, <3>1, <3>3 DEF RecordDelivered, InFlight
    <3> QED
      BY <3>2, <3>3
  <2> QED
    BY <1>6, <2>1, <2>2, <2>3, <2>4 DEF RecordDelivered, AllKnown
<1>7. ASSUME MarkNotification(s)
      PROVE  RowsOnce' /\ OwnRows' /\ CancelledLater' /\ AllKnown'
  <2>1. RowsOnce' /\ OwnRows' /\ CancelledLater'
    BY <1>7 DEF MarkNotification, Leave, RowsOnce, OwnRows, CancelledLater
  <2>2. ASSUME NEW m \in mail, OnRecord(m) \/ InFlight(m) PROVE (OnRecord(m) \/ InFlight(m))'
    BY <1>7, <2>2 DEF MarkNotification, Leave, OnRecord, InFlight
  <2> QED
    BY <1>7, <2>1, <2>2 DEF MarkNotification, AllKnown
<1>8. ~RecordFailed(s)
  BY DEF RecordFailed, OwnRows
<1> QED
  BY <1>1, <1>2, <1>3, <1>4, <1>5, <1>6, <1>7, <1>8 DEF SenderStep

(* The events and the eraser. *)
LEMMA KnownOtherStep ==
  ASSUME MailInv, RowsOnce, OwnRows, CancelledLater, AllKnown, faults' = faults,
         (\E e \in Events : RecordCheck(e) \/ RecordCommit(e)) \/ EraserStep \/ IndexMessage
  PROVE  RowsOnce' /\ OwnRows' /\ CancelledLater' /\ AllKnown'
<1> USE MailAssumption DEF MailInv, TypeOK, LockHeld, CheckHolds, DoneIsEmpty, Connected, Inside,
      Erasing, Messages, AtWork, Unsent, deliveries, mailpit, sender, erasure, Free
<1>1. ASSUME NEW e \in Events, RecordCheck(e)
      PROVE  RowsOnce' /\ OwnRows' /\ CancelledLater' /\ AllKnown'
  BY <1>1 DEF RecordCheck, RowsOnce, OwnRows, CancelledLater, AllKnown, OnRecord, InFlight
<1>2. ASSUME NEW e \in Events, RecordCommit(e)
      PROVE  RowsOnce' /\ OwnRows' /\ CancelledLater' /\ AllKnown'
  <2>1. status[e] = "none" /\ Unsent(e)
    BY <1>2 DEF RecordCommit, RowsOnce
  <2>2. RowsOnce' /\ OwnRows' /\ CancelledLater'
    BY <1>2, <2>1 DEF RecordCommit, RowsOnce, OwnRows, CancelledLater
  <2>3. ASSUME NEW m \in mail, OnRecord(m) \/ InFlight(m) PROVE (OnRecord(m) \/ InFlight(m))'
    BY <1>2, <2>1, <2>3 DEF RecordCommit, OnRecord, InFlight
  <2> QED
    BY <1>2, <2>2, <2>3 DEF RecordCommit, AllKnown
<1>3. ASSUME Quiesce \/ EraserEnter \/ EraserLeave \/ Verify \/ IndexMessage
      PROVE  RowsOnce' /\ OwnRows' /\ CancelledLater' /\ AllKnown'
  <2>1. UNCHANGED <<deliveries, mail, sender, ids>>
    BY <1>3 DEF Quiesce, EraserEnter, EraserLeave, Verify, IndexMessage
  <2>2. RowsOnce' /\ OwnRows'
    BY <2>1 DEF RowsOnce, OwnRows
  <2>3. CancelledLater'
    BY <1>3 DEF Quiesce, EraserEnter, EraserLeave, Verify, IndexMessage, CancelledLater
  <2>4. \A m \in mail : (OnRecord(m) \/ InFlight(m))' <=> OnRecord(m) \/ InFlight(m)
    BY <2>1 DEF OnRecord, InFlight
  <2> QED
    BY <1>3, <2>1, <2>2, <2>3, <2>4 DEF Quiesce, EraserEnter, EraserLeave, Verify, IndexMessage, AllKnown
<1>4. CASE ReadIds
  <2>1. lock = Eraser /\ \A s \in Senders : pc[s] # "record"
    BY <1>4 DEF ReadIds, CancelledLater
  <2>2. \A m \in mail : OnRecord(m)
    BY <1>4, <2>1 DEF ReadIds, AllKnown, InFlight
  <2>3. ASSUME NEW m \in mail PROVE m \in ids'
    <3>1. PICK e \in Events, a \in 1 .. MaxAttempts : m = <<e, a>>
      BY <2>3
    <3>2. e \in raw /\ id[e] = a /\ a # 0
      BY <2>2, <2>3, <3>1 DEF OnRecord, RowsOnce
    <3> QED
      BY <1>4, <3>1, <3>2 DEF ReadIds
  <2>4. RowsOnce' /\ OwnRows' /\ CancelledLater'
    BY <1>4 DEF ReadIds, RowsOnce, OwnRows, CancelledLater
  <2> QED
    BY <1>4, <2>3, <2>4 DEF ReadIds, AllKnown
<1>5. CASE RedactDeliveries
  <2>1. tombstone
    BY <1>5 DEF RedactDeliveries
  <2>2. \A s \in Senders : pc[s] # "record"
    BY <1>5 DEF RedactDeliveries, CancelledLater
  <2>3. RowsOnce' /\ OwnRows' /\ CancelledLater'
    BY <1>5, <2>1, <2>2 DEF RedactDeliveries, RowsOnce, OwnRows, CancelledLater
  <2> QED
    BY <1>5, <2>3 DEF RedactDeliveries, AllKnown
<1>6. CASE DeleteByIds \/ DeleteByRecipient
  BY <1>6 DEF DeleteByIds, DeleteByRecipient, Delete, RowsOnce, OwnRows, CancelledLater, AllKnown
<1> QED
  BY <1>1, <1>2, <1>3, <1>4, <1>5, <1>6 DEF EraserStep

LEMMA KnownStep ==
  ASSUME MailInv, KnownInv, [Next]_vars
  PROVE  KnownInv'
<1> SUFFICES ASSUME faults' = 0 PROVE (RowsOnce /\ OwnRows /\ CancelledLater /\ AllKnown)'
  BY DEF KnownInv
<1>1. faults \in Nat
  BY MailAssumption DEF MailInv, TypeOK
<1>2. ~Fault
  BY <1>1 DEF Fault
<1>3. ASSUME faults' = faults PROVE RowsOnce /\ OwnRows /\ CancelledLater /\ AllKnown
  BY <1>3 DEF KnownInv
<1>4. ASSUME NEW s \in Senders, SenderStep(s)
      PROVE  (RowsOnce /\ OwnRows /\ CancelledLater /\ AllKnown)'
  <2>1. faults' = faults
    BY <1>2, <1>4 DEF SenderStep, Claim, Connect, Enter, Check, Cancel, Send, RecordDelivered,
                      MarkNotification, RecordFailed
  <2> QED
    BY <1>3, <1>4, <2>1, KnownSenderStep
<1>5. ASSUME (\E e \in Events : RecordCheck(e) \/ RecordCommit(e)) \/ EraserStep \/ IndexMessage
      PROVE  (RowsOnce /\ OwnRows /\ CancelledLater /\ AllKnown)'
  <2>1. faults' = faults
    BY <1>5 DEF RecordCheck, RecordCommit, EraserStep, Quiesce, EraserEnter, ReadIds,
                RedactDeliveries, DeleteByIds, DeleteByRecipient, EraserLeave, Verify, IndexMessage
  <2> QED
    BY <1>3, <1>5, <2>1, KnownOtherStep
<1>6. CASE UNCHANGED vars
  <2>1. RowsOnce /\ OwnRows /\ CancelledLater /\ AllKnown
    BY <1>3, <1>6 DEF vars
  <2> QED
    BY <1>6, <2>1 DEF vars, RowsOnce, OwnRows, CancelledLater, AllKnown, Unsent, OnRecord, InFlight
<1>7. ~SenderCrash /\ ~EraserFails /\ \A s \in Senders : ~SenderThrows(s)
  BY <1>2 DEF SenderCrash, EraserFails, SenderThrows
<1> QED
  BY <1>4, <1>5, <1>6, <1>7 DEF Next

(* eraseNotificationProvider needs no search as long as nothing fails: the  *)
(* ids it reads from the rows are those of all messages, however many       *)
(* senders overlap with it.                                                 *)
THEOREM KnownMailIsErased == Spec => []KnownMailErased
<1>1. Init => KnownInv
  BY DEF Init, KnownInv, RowsOnce, OwnRows, CancelledLater, AllKnown, Unsent, AtWork, Erasing
<1>2. MailInv /\ KnownInv /\ [Next]_vars => KnownInv'
  BY KnownStep
<1>3. KnownInv => KnownMailErased
  BY DEF KnownInv, AllKnown, KnownMailErased
<1> QED
  BY <1>1, <1>2, <1>3, MailInductive, PTL DEF Spec
=============================================================================
