------------------------------ MODULE ErasureApi ------------------------------
(***************************************************************************)
(* POST /v1/customers/{customerId}/erasure-requests of one merchant: the   *)
(* transaction of PrivacyRepository.createOrGet, statement by statement,   *)
(* for calls that run at the same time, while the erasure worker moves the *)
(* requests that exist.  PostgreSQL is READ COMMITTED: each SELECT sees    *)
(* what was committed when it ran, FOR UPDATE waits for the row, the       *)
(* advisory lock lasts until the transaction ends, and an INSERT waits for *)
(* an uncommitted row with the same unique key.                            *)
(***************************************************************************)
EXTENDS Naturals

CONSTANTS
  Calls,        \* HTTP calls; the id of a request is the call that inserted it
  NoCall,
  Customers,    \* well-formed customer ids
  Keys,         \* idempotency keys
  MaxAttempts,  \* erasure_requests.max_attempts
  MaxFaults     \* bound: database errors and crashes of the service

ASSUME ApiAssumption ==
  /\ NoCall \notin Calls
  /\ MaxAttempts \in Nat \ {0}
  /\ MaxFaults \in Nat

VARIABLES
  pc,        \* the statement each call is at
  arg,       \* the customer and the key of each call
  found,     \* the request a call has found or inserted
  code,      \* the HTTP status of its answer; 0 while it has none
  row,       \* erasure_requests: the status of each row
  tries,     \* erasure_requests.attempts
  rowLock,   \* the call that holds a row FOR UPDATE
  advisory,  \* the call that holds privacy:<merchant>:<customer>
  exists,    \* the customers that have a row in customers.customers
  faults     \* errors and crashes so far

call == <<pc, arg, found, code>>
table == <<row, tries>>
locks == <<rowLock, advisory>>
vars == <<pc, arg, found, code, row, tries, rowLock, advisory, exists, faults>>

InTransaction ==
  {"lock", "byKey", "byCustomer", "customer", "insert", "steps", "resume", "commit", "end"}
Committed == {"pending", "processing", "failed", "completed"}

TypeOK ==
  /\ pc \in [Calls -> InTransaction \cup {"idle", "done", "gone"}]
  /\ arg \in [Calls -> [customer : Customers, key : Keys]]
  /\ found \in [Calls -> Calls \cup {NoCall}]
  /\ code \in [Calls -> {0, 202, 404, 409, 500}]
  /\ row \in [Calls -> Committed \cup {"absent", "uncommitted"}]
  /\ tries \in [Calls -> 0 .. MaxAttempts]
  /\ rowLock \in [Calls -> Calls \cup {NoCall}]
  /\ advisory \in [Customers -> Calls \cup {NoCall}]
  /\ exists \in SUBSET Customers
  /\ faults \in 0 .. MaxFaults

Init ==
  /\ pc = [c \in Calls |-> "idle"]
  /\ arg \in [Calls -> [customer : Customers, key : Keys]]
  /\ found = [c \in Calls |-> NoCall]
  /\ code = [c \in Calls |-> 0]
  /\ row = [c \in Calls |-> "absent"]
  /\ tries = [c \in Calls |-> 0]
  /\ rowLock = [c \in Calls |-> NoCall]
  /\ advisory = [x \in Customers |-> NoCall]
  /\ exists \in SUBSET Customers
  /\ faults = 0

-----------------------------------------------------------------------------
(* The tables and the locks. *)

Requests == {r \in Calls : row[r] \in Committed}
WithKey(k) == {r \in Requests : arg[r].key = k}
OfCustomer(x) == {r \in Requests : arg[r].customer = x}

UnlockedAnyway(r) == TRUE  \* mutant: the row is read without FOR UPDATE
Unlocked(r) == rowLock[r] = NoCall

(* UNIQUE(merchant_id,customer_id) and UNIQUE(merchant_id,idempotency_key). *)
Clash(c, d) ==
  /\ c # d
  /\ arg[c].key = arg[d].key \/ arg[c].customer = arg[d].customer

ReleaseNone(c) ==  \* mutant: the locks of the transaction are kept
  UNCHANGED locks

(* The end of a transaction releases every lock it took. *)
Release(c) ==
  /\ rowLock' = [r \in Calls |-> IF rowLock[r] = c THEN NoCall ELSE rowLock[r]]
  /\ advisory' = [x \in Customers |-> IF advisory[x] = c THEN NoCall ELSE advisory[x]]

Goto(c, next) == pc' = [pc EXCEPT ![c] = next]

(* createOrGet throws: the catch of transaction() rolls back. *)
Refuse(c, status) ==
  /\ Goto(c, "end")
  /\ code' = [code EXCEPT ![c] = status]

Fault ==
  /\ faults < MaxFaults
  /\ faults' = faults + 1

-----------------------------------------------------------------------------
(* A call. *)

Post(c) ==
  /\ pc[c] = "idle"
  /\ Goto(c, "lock")
  /\ UNCHANGED <<arg, found, code, table, locks, exists, faults>>

LockNothing(c) ==  \* mutant: the calls of a customer are not serialised
  /\ pc[c] = "lock"
  /\ Goto(c, "byKey")
  /\ UNCHANGED <<arg, found, code, table, locks, exists, faults>>

Lock(c) ==
  /\ pc[c] = "lock"
  /\ advisory[arg[c].customer] = NoCall
  /\ advisory' = [advisory EXCEPT ![arg[c].customer] = c]
  /\ Goto(c, "byKey")
  /\ UNCHANGED <<arg, found, code, table, rowLock, exists, faults>>

(* A request is found, locked and read. *)
Find(c, r) ==
  /\ Unlocked(r)
  /\ rowLock' = [rowLock EXCEPT ![r] = c]
  /\ found' = [found EXCEPT ![c] = r]

FindByKeyOnly(c) ==  \* mutant: the customer of the request found is not compared
  /\ pc[c] = "byKey"
  /\ \/ /\ WithKey(arg[c].key) = {}
        /\ Goto(c, "byCustomer")
        /\ UNCHANGED <<found, code, rowLock>>
     \/ \E r \in WithKey(arg[c].key) :
          /\ Find(c, r)
          /\ Goto(c, "resume")
          /\ UNCHANGED code
  /\ UNCHANGED <<arg, table, advisory, exists, faults>>

SelectByKey(c) ==
  /\ pc[c] = "byKey"
  /\ \/ /\ WithKey(arg[c].key) = {}
        /\ Goto(c, "byCustomer")
        /\ UNCHANGED <<found, code, rowLock>>
     \/ \E r \in WithKey(arg[c].key) :
          /\ Find(c, r)
          /\ IF arg[r].customer = arg[c].customer
             THEN Goto(c, "resume") /\ UNCHANGED code
             ELSE Refuse(c, 409)
  /\ UNCHANGED <<arg, table, advisory, exists, faults>>

CustomerFirst(c) ==  \* mutant: a new key looks for the customer, not for its request
  /\ pc[c] = "byCustomer"
  /\ Goto(c, "customer")
  /\ UNCHANGED <<arg, found, code, table, locks, exists, faults>>

SelectByCustomer(c) ==
  /\ pc[c] = "byCustomer"
  /\ \/ /\ OfCustomer(arg[c].customer) = {}
        /\ Goto(c, "customer")
        /\ UNCHANGED <<found, rowLock>>
     \/ \E r \in OfCustomer(arg[c].customer) :
          /\ Find(c, r)
          /\ Goto(c, "resume")
  /\ UNCHANGED <<arg, code, table, advisory, exists, faults>>

(* The customer, and the related rows that sensitiveValues is built from. *)
SelectCustomer(c) ==
  /\ pc[c] = "customer"
  /\ IF arg[c].customer \in exists
     THEN Goto(c, "insert") /\ UNCHANGED code
     ELSE Refuse(c, 404)
  /\ UNCHANGED <<arg, found, table, locks, exists, faults>>

(* The unique violation carries no statusCode: the error handler answers 500. *)
Insert(c) ==
  /\ pc[c] = "insert"
  /\ \A d \in Calls : Clash(c, d) => row[d] # "uncommitted"
  /\ IF \E d \in Requests : Clash(c, d)
     THEN Refuse(c, 500) /\ UNCHANGED <<row, found>>
     ELSE /\ row' = [row EXCEPT ![c] = "uncommitted"]
          /\ found' = [found EXCEPT ![c] = c]
          /\ Goto(c, "steps")
          /\ UNCHANGED code
  /\ UNCHANGED <<arg, tries, locks, exists, faults>>

(* One step per participant, and the audit record. *)
InsertSteps(c) ==
  /\ pc[c] = "steps"
  /\ Goto(c, "commit")
  /\ UNCHANGED <<arg, found, code, table, locks, exists, faults>>

(* resumeIfEligible; its UPDATE is seen by others when the call commits. *)
Eligible(r) == row[r] = "failed" /\ tries[r] < MaxAttempts

Resume(c) ==
  /\ pc[c] = "resume"
  /\ Goto(c, IF Eligible(found[c]) THEN "commit" ELSE "end")
  /\ code' = [code EXCEPT ![c] = IF Eligible(found[c]) THEN 0 ELSE 202]
  /\ UNCHANGED <<arg, found, table, locks, exists, faults>>

(* An error of the COMMIT or ROLLBACK itself is answered 500, although the  *)
(* server may have committed.                                               *)
Answer(c, status) ==
  /\ Goto(c, "done")
  /\ \/ code' = [code EXCEPT ![c] = status] /\ UNCHANGED faults
     \/ code' = [code EXCEPT ![c] = 500] /\ Fault

(* COMMIT: the inserted or resumed row is pending. *)
Commit(c) ==
  /\ pc[c] = "commit"
  /\ row' = [row EXCEPT ![found[c]] = "pending"]
  /\ Release(c)
  /\ Answer(c, 202)
  /\ UNCHANGED <<arg, found, tries, exists>>

Undo(c) ==
  /\ row' = [row EXCEPT ![c] = IF @ = "uncommitted" THEN "absent" ELSE @]
  /\ Release(c)

(* The end of a transaction that leaves nothing behind: the COMMIT of one   *)
(* that only read, or the ROLLBACK of a refused one.                        *)
End(c) ==
  /\ pc[c] = "end"
  /\ Undo(c)
  /\ Answer(c, code[c])
  /\ UNCHANGED <<arg, found, tries, exists>>

CallStep(c) ==
  \/ Post(c) \/ Lock(c) \/ SelectByKey(c) \/ SelectByCustomer(c) \/ SelectCustomer(c)
  \/ Insert(c) \/ InsertSteps(c) \/ Resume(c) \/ Commit(c) \/ End(c)

(* A statement of the transaction fails. *)
Throw(c) ==
  /\ pc[c] \in InTransaction \ {"commit", "end"}
  /\ Fault
  /\ Refuse(c, 500)
  /\ UNCHANGED <<arg, found, table, locks, exists>>

(* The service dies in the middle of a call: PostgreSQL rolls back. *)
Crash(c) ==
  /\ pc[c] \in InTransaction
  /\ Fault
  /\ Undo(c)
  /\ Goto(c, "gone")
  /\ UNCHANGED <<arg, found, code, tries, exists>>

-----------------------------------------------------------------------------
(* The erasure worker, as far as a call can see it: ErasureWorkflow says    *)
(* when it takes these steps, and that an overtaken worker may take them    *)
(* late.  FOR UPDATE SKIP LOCKED and the row lock of an UPDATE keep off a   *)
(* row that a call holds.                                                   *)

ClaimForever(r) ==  \* mutant: the attempts are not counted
  /\ row[r] \in {"pending", "failed"}
  /\ Unlocked(r)
  /\ row' = [row EXCEPT ![r] = "processing"]
  /\ tries' = [tries EXCEPT ![r] = @ + 1]
  /\ UNCHANGED <<call, locks, exists, faults>>

ClaimRequest(r) ==
  /\ row[r] \in {"pending", "failed"}
  /\ tries[r] < MaxAttempts
  /\ Unlocked(r)
  /\ row' = [row EXCEPT ![r] = "processing"]
  /\ tries' = [tries EXCEPT ![r] = @ + 1]
  /\ UNCHANGED <<call, locks, exists, faults>>

(* eraseCustomerRecords takes the advisory lock of the customer. *)
EraseCustomer(r) ==
  /\ r \in Requests
  /\ tries[r] > 0
  /\ advisory[arg[r].customer] = NoCall
  /\ exists' = exists \ {arg[r].customer}
  /\ UNCHANGED <<call, table, locks, faults>>

CompleteRequest(r) ==
  /\ r \in Requests
  /\ tries[r] > 0
  /\ arg[r].customer \notin exists
  /\ Unlocked(r)
  /\ row' = [row EXCEPT ![r] = "completed"]
  /\ UNCHANGED <<call, tries, locks, exists, faults>>

FailRequest(r) ==
  /\ r \in Requests
  /\ tries[r] > 0
  /\ Unlocked(r)
  /\ row' = [row EXCEPT ![r] = "failed"]
  /\ UNCHANGED <<call, tries, locks, exists, faults>>

-----------------------------------------------------------------------------
Next ==
  \/ \E c \in Calls : CallStep(c) \/ Throw(c) \/ Crash(c)
  \/ \E r \in Calls :
       ClaimRequest(r) \/ EraseCustomer(r) \/ CompleteRequest(r) \/ FailRequest(r)

Spec == Init /\ [][Next]_vars

-----------------------------------------------------------------------------
Accepted(c) == pc[c] = "done" /\ code[c] = 202

(* docs/privacy-api.md: an accepted call names "a saved erasure request" of *)
(* its own customer, for good: no later error or crash takes it back.       *)
AcceptedIsSaved ==
  \A c \in Calls : Accepted(c) =>
    /\ found[c] \in Requests
    /\ arg[found[c]].customer = arg[c].customer

(* "A new key returns that existing request instead of starting another     *)
(* workflow": all calls for a customer are told the same request, whatever  *)
(* their keys and however they overlap.                                     *)
OneRequestPerCustomer ==
  \A c, d \in Calls :
    Accepted(c) /\ Accepted(d) /\ arg[c].customer = arg[d].customer => found[c] = found[d]

(* A customer whose request was saved is never reported unknown, not even   *)
(* when its own record has been erased.                                     *)
SavedIsNeverUnknown ==
  \A c \in Calls :
    pc[c] = "done" /\ code[c] = 404 => OfCustomer(arg[c].customer) = {}

(* Calls for one customer never fail each other: without faults only a key  *)
(* that is also used for another customer is answered 500.                  *)
NoErrorWithinCustomer ==
  \A c \in Calls : faults = 0 /\ pc[c] = "done" /\ code[c] = 500 =>
    \E r \in Requests : arg[r].key = arg[c].key /\ arg[r].customer # arg[c].customer

(* A repost changes only what failed: it never takes a request away from    *)
(* the worker that claimed it and never reopens a completed one, though the *)
(* status it decides on was read some statements earlier.  (CallsAreAtomic  *)
(* implies it.)                                                             *)
ResumesOnlyFailed ==
  [][\A r \in Requests : row'[r] = "pending" => row[r] \in {"pending", "failed"}]_vars

(* The statements of a call, locked and committed as they are, amount to    *)
(* one step: whatever overlaps, the calls might have come one by one, each  *)
(* decided on what the tables held at that instant.  A call takes place     *)
(* with its COMMIT, or with the end of a transaction that leaves nothing.   *)
Atomic == INSTANCE AtomicErasureApi WITH
  asked <- arg,
  answer <- [c \in Calls |-> IF pc[c] # "done" THEN <<0, NoCall>>
                             ELSE IF code[c] = 202 THEN <<202, found[c]>>
                             ELSE <<code[c], NoCall>>],
  saved <- [r \in Calls |-> IF row[r] \in Committed THEN row[r] ELSE "none"],
  known <- exists,
  troubled <- faults > 0

CallsAreAtomic == Atomic!Spec

(* The statements at which a call waits for another one. *)
Waits(c) ==
  \/ pc[c] = "lock" /\ advisory[arg[c].customer] # NoCall
  \/ pc[c] = "byKey" /\ \E r \in WithKey(arg[c].key) : ~Unlocked(r)
  \/ pc[c] = "byCustomer" /\ \E r \in OfCustomer(arg[c].customer) : ~Unlocked(r)
  \/ pc[c] = "insert" /\ \E d \in Calls : Clash(c, d) /\ row[d] = "uncommitted"

(* The advisory lock, the row locks and the unique indexes never form a     *)
(* circle: behind every call that waits there is one that does not.         *)
NoDeadlock ==
  (\E c \in Calls : Waits(c)) => \E c \in Calls : pc[c] \in InTransaction /\ ~Waits(c)
=============================================================================
