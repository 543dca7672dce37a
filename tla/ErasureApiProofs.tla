--------------------------- MODULE ErasureApiProofs ---------------------------
(***************************************************************************)
(* The safety of ErasureApi for any number of calls, customers, keys,      *)
(* attempts and faults.  The argument: from the advisory lock to the end   *)
(* of its transaction a call is the only one that inserts or erases for    *)
(* its customer (Serialised), the unique indexes keep the rows apart       *)
(* (NoClash), and the row lock keeps the worker off a request between its  *)
(* reading and its reset (FoundIsMine).  The last part shows that the calls*)
(* implement AtomicErasureApi: what a call has decided stays true up to the*)
(* end of its transaction (Decided), the instant at which it takes place.  *)
(***************************************************************************)
EXTENDS ErasureApi, TLAPS

Customer(c) == arg[c].customer

(* Statements between the advisory lock and the end of the transaction. *)
Locked == {"byKey", "byCustomer", "customer", "insert", "steps", "resume", "commit"}

Serialised ==
  \A c \in Calls :
    /\ pc[c] \in Locked => advisory[Customer(c)] = c
    /\ row[c] = "uncommitted" => /\ pc[c] \in {"steps", "commit", "end"}
                                 /\ advisory[Customer(c)] = c
    /\ pc[c] \in {"idle", "lock", "resume"} \cup (Locked \ {"steps", "commit"})
         => row[c] = "absent"

(* What a call that saw no request may rely on when it inserts. *)
StillUnknown ==
  \A c \in Calls :
    /\ pc[c] \in {"customer", "insert"} => OfCustomer(Customer(c)) = {}
    /\ pc[c] = "insert" => Customer(c) \in exists
    /\ pc[c] \in {"end", "done"} /\ code[c] = 404 =>
         /\ Customer(c) \notin exists
         /\ \A r \in Calls : Customer(r) = Customer(c) => row[r] = "absent"

(* Whoever holds a lock has it from a statement that waits for nobody, or,  *)
(* with the advisory lock alone, from one that can wait for those only.     *)
LocksAreHeld ==
  \A c \in Calls :
    /\ \A x \in Customers : advisory[x] = c => pc[c] \in Locked \cup {"end"}
    /\ \A r \in Calls : rowLock[r] = c => pc[c] \in {"resume", "commit", "end"}

NoClash ==
  \A r, s \in Calls : row[r] # "absent" /\ row[s] # "absent" => ~Clash(r, s)

Saved(c) == found[c] \in Requests /\ Customer(found[c]) = Customer(c)

FoundIsMine ==
  \A c \in Calls :
    /\ pc[c] = "steps" => found[c] = c /\ row[c] = "uncommitted"
    /\ pc[c] = "resume" => Saved(c) /\ rowLock[found[c]] = c
    /\ pc[c] = "commit" =>
         \/ found[c] = c /\ row[c] = "uncommitted"
         \/ /\ Saved(c) /\ rowLock[found[c]] = c /\ row[found[c]] = "failed"
            /\ row[c] = "absent"
    /\ pc[c] \in {"end", "done"} /\ code[c] = 202 => Saved(c)

ErrorsExplained ==
  \A c \in Calls : faults = 0 /\ code[c] = 500 =>
    \E r \in Requests : arg[r].key = arg[c].key /\ Customer(r) # Customer(c)

IInv ==
  /\ TypeOK /\ Serialised /\ LocksAreHeld
  /\ StillUnknown /\ NoClash /\ FoundIsMine /\ ErrorsExplained

(* Every step keeps the types. *)
LEMMA TypeStep ==
  ASSUME TypeOK, [Next]_vars
  PROVE  TypeOK'
<1> USE ApiAssumption DEF Goto, call, table, locks, TypeOK, InTransaction, Committed
<1>1. ASSUME NEW c \in Calls, Post(c) PROVE TypeOK'
  BY <1>1 DEF Post
<1>2. ASSUME NEW c \in Calls, Lock(c) PROVE TypeOK'
  BY <1>2 DEF Lock
<1>3. ASSUME NEW c \in Calls, SelectByKey(c) PROVE TypeOK'
  <2>1. CASE WithKey(arg[c].key) = {} /\ Goto(c, "byCustomer") /\ UNCHANGED <<found, code, rowLock>>
    BY <1>3, <2>1 DEF SelectByKey
  <2>2. ASSUME NEW r \in WithKey(arg[c].key), Find(c, r),
               IF arg[r].customer = arg[c].customer
               THEN Goto(c, "resume") /\ UNCHANGED code
               ELSE Refuse(c, 409)
        PROVE  TypeOK'
    <3>1. r \in Calls
      BY DEF WithKey, Requests
    <3>2. pc' \in [Calls -> InTransaction \cup {"idle", "done", "gone"}]
      BY <2>2 DEF Refuse
    <3>3. code' \in [Calls -> {0, 202, 404, 409, 500}]
      BY <2>2 DEF Refuse
    <3> QED
      BY <1>3, <2>2, <3>1, <3>2, <3>3 DEF SelectByKey, Find
  <2> QED
    BY <1>3, <2>1, <2>2 DEF SelectByKey
<1>4. ASSUME NEW c \in Calls, SelectByCustomer(c) PROVE TypeOK'
  <2>1. CASE OfCustomer(arg[c].customer) = {} /\ Goto(c, "customer") /\ UNCHANGED <<found, rowLock>>
    BY <1>4, <2>1 DEF SelectByCustomer
  <2>2. ASSUME NEW r \in OfCustomer(arg[c].customer), Find(c, r), Goto(c, "resume")
        PROVE  TypeOK'
    BY <1>4, <2>2 DEF SelectByCustomer, OfCustomer, Requests, Find
  <2> QED
    BY <1>4, <2>1, <2>2 DEF SelectByCustomer
<1>5. ASSUME NEW c \in Calls, SelectCustomer(c) PROVE TypeOK'
  BY <1>5 DEF SelectCustomer, Refuse
<1>6. ASSUME NEW c \in Calls, Insert(c) PROVE TypeOK'
  <2>1. CASE Refuse(c, 500) /\ UNCHANGED <<row, found>>
    BY <1>6, <2>1 DEF Insert, Refuse
  <2>2. CASE /\ row' = [row EXCEPT ![c] = "uncommitted"]
             /\ found' = [found EXCEPT ![c] = c]
             /\ Goto(c, "steps")
             /\ UNCHANGED code
    BY <1>6, <2>2 DEF Insert
  <2> QED
    BY <1>6, <2>1, <2>2 DEF Insert
<1>7. ASSUME NEW c \in Calls, InsertSteps(c) PROVE TypeOK'
  BY <1>7 DEF InsertSteps
<1>8. ASSUME NEW c \in Calls, Resume(c) PROVE TypeOK'
  BY <1>8 DEF Resume, Eligible
<1>9. ASSUME NEW c \in Calls, Commit(c) PROVE TypeOK'
  <2>1. rowLock' \in [Calls -> Calls \cup {NoCall}] /\ advisory' \in [Customers -> Calls \cup {NoCall}]
    BY <1>9 DEF Commit, Release
  <2>2. pc' \in [Calls -> InTransaction \cup {"idle", "done", "gone"}]
    BY <1>9 DEF Commit, Answer
  <2>3. code' \in [Calls -> {0, 202, 404, 409, 500}]
    BY <1>9 DEF Commit, Answer
  <2>5. faults' \in 0 .. MaxFaults
    BY <1>9 DEF Commit, Answer, Fault
  <2>4. row' \in [Calls -> Committed \cup {"absent", "uncommitted"}]
    BY <1>9 DEF Commit
  <2> QED
    BY <1>9, <2>1, <2>2, <2>3, <2>4, <2>5 DEF Commit
<1>10. ASSUME NEW c \in Calls, End(c) PROVE TypeOK'
  <2>1. rowLock' \in [Calls -> Calls \cup {NoCall}] /\ advisory' \in [Customers -> Calls \cup {NoCall}]
    BY <1>10 DEF End, Undo, Release
  <2>2. pc' \in [Calls -> InTransaction \cup {"idle", "done", "gone"}]
    BY <1>10 DEF End, Answer
  <2>3. code' \in [Calls -> {0, 202, 404, 409, 500}]
    BY <1>10 DEF End, Answer
  <2>5. faults' \in 0 .. MaxFaults
    BY <1>10 DEF End, Answer, Fault
  <2>4. row' \in [Calls -> Committed \cup {"absent", "uncommitted"}]
    BY <1>10 DEF End, Undo
  <2> QED
    BY <1>10, <2>1, <2>2, <2>3, <2>4, <2>5 DEF End
<1>11. ASSUME NEW c \in Calls, Throw(c) PROVE TypeOK'
  BY <1>11 DEF Throw, Refuse, Fault
<1>12. ASSUME NEW c \in Calls, Crash(c) PROVE TypeOK'
  BY <1>12 DEF Crash, Undo, Release, Fault
<1>13. ASSUME NEW r \in Calls, ClaimRequest(r) PROVE TypeOK'
  BY <1>13 DEF ClaimRequest, Unlocked
<1>14. ASSUME NEW r \in Calls, EraseCustomer(r) PROVE TypeOK'
  BY <1>14 DEF EraseCustomer
<1>15. ASSUME NEW r \in Calls, CompleteRequest(r) PROVE TypeOK'
  BY <1>15 DEF CompleteRequest, Unlocked
<1>16. ASSUME NEW r \in Calls, FailRequest(r) PROVE TypeOK'
  BY <1>16 DEF FailRequest, Unlocked
<1>17. CASE UNCHANGED vars
  BY <1>17 DEF vars
<1> QED
  BY <1>1, <1>2, <1>3, <1>4, <1>5, <1>6, <1>7, <1>8,
     <1>9, <1>10, <1>11, <1>12, <1>13, <1>14, <1>15, <1>16, <1>17 DEF Next, CallStep

(* What the SELECT by key leaves: nothing changes but the call that ran it,  *)
(* and it goes on with a request only if it is one of its customer.         *)
LEMMA KeySelected ==
  ASSUME TypeOK, NEW c \in Calls, SelectByKey(c)
  PROVE  /\ pc[c] = "byKey" /\ UNCHANGED <<arg, row, tries, advisory, exists, faults>>
         /\ \A d \in Calls \ {c} :
              pc'[d] = pc[d] /\ found'[d] = found[d] /\ code'[d] = code[d]
         /\ \A r \in Calls : rowLock'[r] = rowLock[r] \/ rowLock[r] = NoCall
         /\ \/ pc'[c] = "byCustomer" /\ code'[c] = code[c]
            \/ /\ pc'[c] = "resume" /\ code'[c] = code[c]
               /\ Saved(c)' /\ rowLock'[found'[c]] = c
            \/ pc'[c] = "end" /\ code'[c] = 409
<1> USE DEF TypeOK, Goto, table, Customer, Saved, Requests
<1>1. CASE WithKey(arg[c].key) = {} /\ Goto(c, "byCustomer") /\ UNCHANGED <<found, code, rowLock>>
  BY <1>1 DEF SelectByKey
<1>2. ASSUME NEW r \in WithKey(arg[c].key), Find(c, r), arg[r].customer = arg[c].customer,
             Goto(c, "resume"), UNCHANGED code
      PROVE  pc'[c] = "resume" /\ code'[c] = code[c] /\ Saved(c)' /\ rowLock'[found'[c]] = c
  BY <1>2 DEF SelectByKey, WithKey, Find
<1>3. ASSUME NEW r \in WithKey(arg[c].key), Find(c, r), Refuse(c, 409)
      PROVE  pc'[c] = "end" /\ code'[c] = 409
  BY <1>3 DEF SelectByKey, Refuse
<1>4. ASSUME NEW r \in WithKey(arg[c].key), Find(c, r),
             (Goto(c, "resume") /\ UNCHANGED code) \/ Refuse(c, 409)
      PROVE  /\ \A d \in Calls \ {c} :
                  pc'[d] = pc[d] /\ found'[d] = found[d] /\ code'[d] = code[d]
             /\ \A q \in Calls : rowLock'[q] = rowLock[q] \/ rowLock[q] = NoCall
  BY <1>4 DEF WithKey, Find, Refuse, Unlocked
<1> QED
  BY <1>1, <1>2, <1>3, <1>4 DEF SelectByKey

(* A committed request is never lost: an INSERT starts from an absent row,  *)
(* and only an uncommitted one is undone.                                   *)
LEMMA RequestsStay ==
  ASSUME TypeOK, Serialised, FoundIsMine, [Next]_vars
  PROVE  Requests \subseteq Requests'
<1> USE ApiAssumption DEF Goto, call, table, locks, Serialised, Locked, Requests, TypeOK, InTransaction, Committed
<1>1. ASSUME NEW c \in Calls, Post(c) PROVE Requests \subseteq Requests'
  BY <1>1 DEF Post
<1>2. ASSUME NEW c \in Calls, Lock(c) PROVE Requests \subseteq Requests'
  BY <1>2 DEF Lock
<1>3. ASSUME NEW c \in Calls, SelectByKey(c) PROVE Requests \subseteq Requests'
  BY <1>3 DEF SelectByKey, WithKey, Find
<1>4. ASSUME NEW c \in Calls, SelectByCustomer(c) PROVE Requests \subseteq Requests'
  BY <1>4 DEF SelectByCustomer, OfCustomer, Find
<1>5. ASSUME NEW c \in Calls, SelectCustomer(c) PROVE Requests \subseteq Requests'
  BY <1>5 DEF SelectCustomer, Refuse
<1>6. ASSUME NEW c \in Calls, Insert(c) PROVE Requests \subseteq Requests'
  BY <1>6 DEF Insert, Refuse, Clash
<1>7. ASSUME NEW c \in Calls, InsertSteps(c) PROVE Requests \subseteq Requests'
  BY <1>7 DEF InsertSteps
<1>8. ASSUME NEW c \in Calls, Resume(c) PROVE Requests \subseteq Requests'
  BY <1>8 DEF Resume, Eligible
<1>9. ASSUME NEW c \in Calls, Commit(c) PROVE Requests \subseteq Requests'
  BY <1>9 DEF Commit, Release, Answer, Fault
<1>10. ASSUME NEW c \in Calls, End(c) PROVE Requests \subseteq Requests'
  BY <1>10 DEF End, Undo, Release, Answer, Fault
<1>11. ASSUME NEW c \in Calls, Throw(c) PROVE Requests \subseteq Requests'
  BY <1>11 DEF Throw, Refuse, Fault
<1>12. ASSUME NEW c \in Calls, Crash(c) PROVE Requests \subseteq Requests'
  BY <1>12 DEF Crash, Undo, Release, Fault
<1>13. ASSUME NEW r \in Calls, ClaimRequest(r) PROVE Requests \subseteq Requests'
  BY <1>13 DEF ClaimRequest, Unlocked
<1>14. ASSUME NEW r \in Calls, EraseCustomer(r) PROVE Requests \subseteq Requests'
  BY <1>14 DEF EraseCustomer
<1>15. ASSUME NEW r \in Calls, CompleteRequest(r) PROVE Requests \subseteq Requests'
  BY <1>15 DEF CompleteRequest, Unlocked
<1>16. ASSUME NEW r \in Calls, FailRequest(r) PROVE Requests \subseteq Requests'
  BY <1>16 DEF FailRequest, Unlocked
<1>17. CASE UNCHANGED vars
  BY <1>17 DEF vars
<1> QED
  BY <1>1, <1>2, <1>3, <1>4, <1>5, <1>6, <1>7, <1>8,
     <1>9, <1>10, <1>11, <1>12, <1>13, <1>14, <1>15, <1>16, <1>17 DEF Next, CallStep

(* From the advisory lock to the end of its transaction a call has its      *)
(* customer to itself.                                                      *)
LEMMA SerialisedStep ==
  ASSUME TypeOK, Serialised, FoundIsMine, [Next]_vars
  PROVE  Serialised'
<1> USE ApiAssumption DEF Goto, call, table, locks, Serialised, Locked, Customer, Requests, TypeOK, InTransaction, Committed
<1>1. ASSUME NEW c \in Calls, Post(c) PROVE Serialised'
  BY <1>1 DEF Post
<1>2. ASSUME NEW c \in Calls, Lock(c) PROVE Serialised'
  BY <1>2 DEF Lock
<1>3. ASSUME NEW c \in Calls, SelectByKey(c) PROVE Serialised'
  BY <1>3, KeySelected
<1>4. ASSUME NEW c \in Calls, SelectByCustomer(c) PROVE Serialised'
  BY <1>4 DEF SelectByCustomer, OfCustomer, Find
<1>5. ASSUME NEW c \in Calls, SelectCustomer(c) PROVE Serialised'
  BY <1>5 DEF SelectCustomer, Refuse
<1>6. ASSUME NEW c \in Calls, Insert(c) PROVE Serialised'
  BY <1>6 DEF Insert, Refuse, Clash
<1>7. ASSUME NEW c \in Calls, InsertSteps(c) PROVE Serialised'
  BY <1>7 DEF InsertSteps
<1>8. ASSUME NEW c \in Calls, Resume(c) PROVE Serialised'
  BY <1>8 DEF Resume, Eligible
<1>9. ASSUME NEW c \in Calls, Commit(c) PROVE Serialised'
  <2>1. row[found[c]] \in {"uncommitted", "failed"}
    BY <1>9 DEF Commit, FoundIsMine
  <2>2. \A d \in Calls : row'[d] = "uncommitted" => row[d] = "uncommitted" /\ d # c
    BY <1>9 DEF Commit, FoundIsMine, Saved, Requests
  <2>3. \A d \in Calls : row'[d] = "absent" <=> row[d] = "absent"
    BY <1>9, <2>1 DEF Commit, FoundIsMine, Saved, Requests
  <2>4. \A d \in Calls : /\ pc'[d] = IF d = c THEN "done" ELSE pc[d]
                         /\ d # c /\ advisory[Customer(d)] = d => advisory'[Customer(d)] = d
    BY <1>9 DEF Commit, Release, Answer
  <2>5. arg' = arg
    BY <1>9 DEF Commit
  <2> QED
    BY <2>2, <2>3, <2>4, <2>5
<1>10. ASSUME NEW c \in Calls, End(c) PROVE Serialised'
  BY <1>10 DEF End, Undo, Release, Answer, Fault
<1>11. ASSUME NEW c \in Calls, Throw(c) PROVE Serialised'
  BY <1>11 DEF Throw, Refuse, Fault
<1>12. ASSUME NEW c \in Calls, Crash(c) PROVE Serialised'
  BY <1>12 DEF Crash, Undo, Release, Fault
<1>13. ASSUME NEW r \in Calls, ClaimRequest(r) PROVE Serialised'
  BY <1>13 DEF ClaimRequest, Unlocked
<1>14. ASSUME NEW r \in Calls, EraseCustomer(r) PROVE Serialised'
  BY <1>14 DEF EraseCustomer
<1>15. ASSUME NEW r \in Calls, CompleteRequest(r) PROVE Serialised'
  BY <1>15 DEF CompleteRequest, Unlocked
<1>16. ASSUME NEW r \in Calls, FailRequest(r) PROVE Serialised'
  BY <1>16 DEF FailRequest, Unlocked
<1>17. CASE UNCHANGED vars
  BY <1>17 DEF vars
<1> QED
  BY <1>1, <1>2, <1>3, <1>4, <1>5, <1>6, <1>7, <1>8,
     <1>9, <1>10, <1>11, <1>12, <1>13, <1>14, <1>15, <1>16, <1>17 DEF Next, CallStep

(* What a call has learnt about its customer stays true while it holds the  *)
(* advisory lock, and a customer reported unknown never gets a request.     *)
LEMMA StillUnknownStep ==
  ASSUME TypeOK, Serialised, StillUnknown, FoundIsMine, [Next]_vars
  PROVE  StillUnknown'
<1> USE ApiAssumption DEF Goto, call, table, locks, Serialised, Locked, Customer, StillUnknown, OfCustomer, Requests, TypeOK, InTransaction, Committed
<1>1. ASSUME NEW c \in Calls, Post(c) PROVE StillUnknown'
  BY <1>1 DEF Post
<1>2. ASSUME NEW c \in Calls, Lock(c) PROVE StillUnknown'
  BY <1>2 DEF Lock
<1>3. ASSUME NEW c \in Calls, SelectByKey(c) PROVE StillUnknown'
  BY <1>3, KeySelected
<1>4. ASSUME NEW c \in Calls, SelectByCustomer(c) PROVE StillUnknown'
  BY <1>4 DEF SelectByCustomer, Find
<1>5. ASSUME NEW c \in Calls, SelectCustomer(c) PROVE StillUnknown'
  BY <1>5 DEF SelectCustomer, Refuse
<1>6. ASSUME NEW c \in Calls, Insert(c) PROVE StillUnknown'
  BY <1>6 DEF Insert, Refuse, Clash
<1>7. ASSUME NEW c \in Calls, InsertSteps(c) PROVE StillUnknown'
  BY <1>7 DEF InsertSteps
<1>8. ASSUME NEW c \in Calls, Resume(c) PROVE StillUnknown'
  BY <1>8 DEF Resume, Eligible
<1>9. ASSUME NEW c \in Calls, Commit(c) PROVE StillUnknown'
  <2>1. \A d \in Calls : row'[d] = "absent" <=> row[d] = "absent"
    BY <1>9 DEF Commit, FoundIsMine, Saved
  <2>2. ASSUME NEW d \in Calls, pc'[d] \in {"customer", "insert"}
        PROVE  /\ pc[d] = pc'[d] /\ d # c
               /\ OfCustomer(Customer(d))' = {}
    <3>1. pc[d] = pc'[d] /\ d # c
      BY <1>9, <2>2 DEF Commit, Answer
    <3>2. Customer(d) # Customer(c)
      BY <1>9, <3>1, <2>2 DEF Commit
    <3>3. found[c] \in Calls /\ Customer(found[c]) = Customer(c)
      BY <1>9 DEF Commit, FoundIsMine, Saved
    <3> QED
      BY <1>9, <2>2, <3>1, <3>2, <3>3 DEF Commit
  <2>3. ASSUME NEW d \in Calls, pc'[d] \in {"end", "done"}, code'[d] = 404
        PROVE  pc[d] \in {"end", "done"} /\ code[d] = 404
    BY <1>9, <2>3 DEF Commit, Answer
  <2>4. arg' = arg /\ exists' = exists
    BY <1>9 DEF Commit
  <2> QED
    BY <2>1, <2>2, <2>3, <2>4
<1>10. ASSUME NEW c \in Calls, End(c) PROVE StillUnknown'
  BY <1>10 DEF End, Undo, Release, Answer, Fault
<1>11. ASSUME NEW c \in Calls, Throw(c) PROVE StillUnknown'
  BY <1>11 DEF Throw, Refuse, Fault
<1>12. ASSUME NEW c \in Calls, Crash(c) PROVE StillUnknown'
  BY <1>12 DEF Crash, Undo, Release, Fault
<1>13. ASSUME NEW r \in Calls, ClaimRequest(r) PROVE StillUnknown'
  BY <1>13 DEF ClaimRequest, Unlocked
<1>14. ASSUME NEW r \in Calls, EraseCustomer(r) PROVE StillUnknown'
  BY <1>14 DEF EraseCustomer
<1>15. ASSUME NEW r \in Calls, CompleteRequest(r) PROVE StillUnknown'
  BY <1>15 DEF CompleteRequest, Unlocked
<1>16. ASSUME NEW r \in Calls, FailRequest(r) PROVE StillUnknown'
  BY <1>16 DEF FailRequest, Unlocked
<1>17. CASE UNCHANGED vars
  BY <1>17 DEF vars
<1> QED
  BY <1>1, <1>2, <1>3, <1>4, <1>5, <1>6, <1>7, <1>8,
     <1>9, <1>10, <1>11, <1>12, <1>13, <1>14, <1>15, <1>16, <1>17 DEF Next, CallStep

(* The unique indexes keep every two rows apart. *)
LEMMA NoClashStep ==
  ASSUME TypeOK, NoClash, FoundIsMine, Serialised, [Next]_vars
  PROVE  NoClash'
<1> USE ApiAssumption DEF Goto, call, table, locks, NoClash, Clash, Requests, TypeOK, InTransaction, Committed
<1>1. ASSUME NEW c \in Calls, Post(c) PROVE NoClash'
  BY <1>1 DEF Post
<1>2. ASSUME NEW c \in Calls, Lock(c) PROVE NoClash'
  BY <1>2 DEF Lock
<1>3. ASSUME NEW c \in Calls, SelectByKey(c) PROVE NoClash'
  BY <1>3 DEF SelectByKey, WithKey, Find
<1>4. ASSUME NEW c \in Calls, SelectByCustomer(c) PROVE NoClash'
  BY <1>4 DEF SelectByCustomer, OfCustomer, Find
<1>5. ASSUME NEW c \in Calls, SelectCustomer(c) PROVE NoClash'
  BY <1>5 DEF SelectCustomer, Refuse
<1>6. ASSUME NEW c \in Calls, Insert(c) PROVE NoClash'
  BY <1>6 DEF Insert, Refuse
<1>7. ASSUME NEW c \in Calls, InsertSteps(c) PROVE NoClash'
  BY <1>7 DEF InsertSteps
<1>8. ASSUME NEW c \in Calls, Resume(c) PROVE NoClash'
  BY <1>8 DEF Resume, Eligible
<1>9. ASSUME NEW c \in Calls, Commit(c) PROVE NoClash'
  BY <1>9 DEF Commit, FoundIsMine, Saved
<1>10. ASSUME NEW c \in Calls, End(c) PROVE NoClash'
  BY <1>10 DEF End, Undo, Release, Answer, Fault
<1>11. ASSUME NEW c \in Calls, Throw(c) PROVE NoClash'
  BY <1>11 DEF Throw, Refuse, Fault
<1>12. ASSUME NEW c \in Calls, Crash(c) PROVE NoClash'
  BY <1>12 DEF Crash, Undo, Release, Fault
<1>13. ASSUME NEW r \in Calls, ClaimRequest(r) PROVE NoClash'
  BY <1>13 DEF ClaimRequest, Unlocked
<1>14. ASSUME NEW r \in Calls, EraseCustomer(r) PROVE NoClash'
  BY <1>14 DEF EraseCustomer
<1>15. ASSUME NEW r \in Calls, CompleteRequest(r) PROVE NoClash'
  BY <1>15 DEF CompleteRequest, Unlocked
<1>16. ASSUME NEW r \in Calls, FailRequest(r) PROVE NoClash'
  BY <1>16 DEF FailRequest, Unlocked
<1>17. CASE UNCHANGED vars
  BY <1>17 DEF vars
<1> QED
  BY <1>1, <1>2, <1>3, <1>4, <1>5, <1>6, <1>7, <1>8,
     <1>9, <1>10, <1>11, <1>12, <1>13, <1>14, <1>15, <1>16, <1>17 DEF Next, CallStep

(* The row lock keeps the request a call has read as it was read, and what  *)
(* was answered stays saved.                                                *)
LEMMA FoundIsMineStep ==
  ASSUME TypeOK, FoundIsMine, Serialised, [Next]_vars
  PROVE  FoundIsMine'
<1> USE ApiAssumption DEF Goto, call, table, locks, Serialised, Locked, Customer, FoundIsMine, Saved, Requests, TypeOK, InTransaction, Committed
<1>1. ASSUME NEW c \in Calls, Post(c) PROVE FoundIsMine'
  BY <1>1 DEF Post
<1>2. ASSUME NEW c \in Calls, Lock(c) PROVE FoundIsMine'
  BY <1>2 DEF Lock
<1>3. ASSUME NEW c \in Calls, SelectByKey(c) PROVE FoundIsMine'
  BY <1>3, KeySelected
<1>4. ASSUME NEW c \in Calls, SelectByCustomer(c) PROVE FoundIsMine'
  BY <1>4 DEF SelectByCustomer, OfCustomer, Find
<1>5. ASSUME NEW c \in Calls, SelectCustomer(c) PROVE FoundIsMine'
  BY <1>5 DEF SelectCustomer, Refuse
<1>6. ASSUME NEW c \in Calls, Insert(c) PROVE FoundIsMine'
  BY <1>6 DEF Insert, Refuse, Clash
<1>7. ASSUME NEW c \in Calls, InsertSteps(c) PROVE FoundIsMine'
  BY <1>7 DEF InsertSteps
<1>8. ASSUME NEW c \in Calls, Resume(c) PROVE FoundIsMine'
  BY <1>8 DEF Resume, Eligible
<1>9. ASSUME NEW c \in Calls, Commit(c) PROVE FoundIsMine'
  BY <1>9 DEF Commit, Release, Answer, Fault
<1>10. ASSUME NEW c \in Calls, End(c) PROVE FoundIsMine'
  BY <1>10 DEF End, Undo, Release, Answer, Fault
<1>11. ASSUME NEW c \in Calls, Throw(c) PROVE FoundIsMine'
  BY <1>11 DEF Throw, Refuse, Fault
<1>12. ASSUME NEW c \in Calls, Crash(c) PROVE FoundIsMine'
  BY <1>12 DEF Crash, Undo, Release, Fault
<1>13. ASSUME NEW r \in Calls, ClaimRequest(r) PROVE FoundIsMine'
  BY <1>13 DEF ClaimRequest, Unlocked
<1>14. ASSUME NEW r \in Calls, EraseCustomer(r) PROVE FoundIsMine'
  BY <1>14 DEF EraseCustomer
<1>15. ASSUME NEW r \in Calls, CompleteRequest(r) PROVE FoundIsMine'
  BY <1>15 DEF CompleteRequest, Unlocked
<1>16. ASSUME NEW r \in Calls, FailRequest(r) PROVE FoundIsMine'
  BY <1>16 DEF FailRequest, Unlocked
<1>17. CASE UNCHANGED vars
  BY <1>17 DEF vars
<1> QED
  BY <1>1, <1>2, <1>3, <1>4, <1>5, <1>6, <1>7, <1>8,
     <1>9, <1>10, <1>11, <1>12, <1>13, <1>14, <1>15, <1>16, <1>17 DEF Next, CallStep

(* Without faults only a key that another customer uses is answered 500:    *)
(* the advisory lock rules out the other unique index.                      *)
LEMMA ErrorsExplainedStep ==
  ASSUME TypeOK, ErrorsExplained, StillUnknown, FoundIsMine, Serialised, [Next]_vars
  PROVE  ErrorsExplained'
<1> USE ApiAssumption DEF Goto, call, table, locks, ErrorsExplained, Customer, TypeOK
<1>1. ASSUME NEW c \in Calls, Post(c) PROVE ErrorsExplained'
  BY <1>1, RequestsStay DEF Post
<1>2. ASSUME NEW c \in Calls, Lock(c) PROVE ErrorsExplained'
  BY <1>2, RequestsStay DEF Lock
<1>3. ASSUME NEW c \in Calls, SelectByKey(c) PROVE ErrorsExplained'
  <2>1. \A d \in Calls : code'[d] = 500 => code[d] = 500
    BY <1>3, KeySelected
  <2>2. faults' = faults /\ arg' = arg
    BY <1>3, KeySelected
  <2> QED
    BY <2>1, <2>2, RequestsStay
<1>4. ASSUME NEW c \in Calls, SelectByCustomer(c) PROVE ErrorsExplained'
  BY <1>4, RequestsStay DEF SelectByCustomer, OfCustomer, Find
<1>5. ASSUME NEW c \in Calls, SelectCustomer(c) PROVE ErrorsExplained'
  BY <1>5, RequestsStay DEF SelectCustomer, Refuse
<1>6. ASSUME NEW c \in Calls, Insert(c) PROVE ErrorsExplained'
  BY <1>6, RequestsStay DEF Insert, Refuse, Clash, StillUnknown, OfCustomer, Requests
<1>7. ASSUME NEW c \in Calls, InsertSteps(c) PROVE ErrorsExplained'
  BY <1>7, RequestsStay DEF InsertSteps
<1>8. ASSUME NEW c \in Calls, Resume(c) PROVE ErrorsExplained'
  BY <1>8, RequestsStay DEF Resume, Eligible
<1>9. ASSUME NEW c \in Calls, Commit(c) PROVE ErrorsExplained'
  <2>1. faults' = 0 => code'[c] # 500 \/ (faults = 0 /\ code[c] = 500)
    BY <1>9 DEF Commit, Answer, Fault
  <2>2. /\ faults' = 0 => faults = 0
        /\ \A d \in Calls \ {c} : code'[d] = code[d]
        /\ arg' = arg
    BY <1>9 DEF Commit, Answer, Fault
  <2> QED
    BY <2>1, <2>2, RequestsStay
<1>10. ASSUME NEW c \in Calls, End(c) PROVE ErrorsExplained'
  <2>1. faults' = 0 => code'[c] # 500 \/ (faults = 0 /\ code[c] = 500)
    BY <1>10 DEF End, Answer, Fault
  <2>2. /\ faults' = 0 => faults = 0
        /\ \A d \in Calls \ {c} : code'[d] = code[d]
        /\ arg' = arg
    BY <1>10 DEF End, Answer, Fault
  <2> QED
    BY <2>1, <2>2, RequestsStay
<1>11. ASSUME NEW c \in Calls, Throw(c) PROVE ErrorsExplained'
  BY <1>11, RequestsStay DEF Throw, Refuse, Fault
<1>12. ASSUME NEW c \in Calls, Crash(c) PROVE ErrorsExplained'
  BY <1>12, RequestsStay DEF Crash, Undo, Release, Fault
<1>13. ASSUME NEW r \in Calls, ClaimRequest(r) PROVE ErrorsExplained'
  BY <1>13, RequestsStay DEF ClaimRequest, Unlocked
<1>14. ASSUME NEW r \in Calls, EraseCustomer(r) PROVE ErrorsExplained'
  BY <1>14, RequestsStay DEF EraseCustomer
<1>15. ASSUME NEW r \in Calls, CompleteRequest(r) PROVE ErrorsExplained'
  BY <1>15, RequestsStay DEF CompleteRequest
<1>16. ASSUME NEW r \in Calls, FailRequest(r) PROVE ErrorsExplained'
  BY <1>16, RequestsStay DEF FailRequest, Unlocked
<1>17. CASE UNCHANGED vars
  BY <1>17 DEF vars, Requests
<1> QED
  BY <1>1, <1>2, <1>3, <1>4, <1>5, <1>6, <1>7, <1>8,
     <1>9, <1>10, <1>11, <1>12, <1>13, <1>14, <1>15, <1>16, <1>17 DEF Next, CallStep

(* A lock is taken by the statement that waited for it and released with    *)
(* the transaction.                                                         *)
LEMMA LocksAreHeldStep ==
  ASSUME TypeOK, LocksAreHeld, [Next]_vars
  PROVE  LocksAreHeld'
<1> USE ApiAssumption DEF Goto, call, table, locks, LocksAreHeld, Locked, TypeOK, InTransaction
<1>1. ASSUME NEW c \in Calls, Post(c) \/ Lock(c) PROVE LocksAreHeld'
  BY <1>1 DEF Post, Lock
<1>2. ASSUME NEW c \in Calls, SelectByKey(c) PROVE LocksAreHeld'
  <2>1. CASE Goto(c, "byCustomer") /\ UNCHANGED rowLock
    BY <1>2, <2>1 DEF SelectByKey
  <2>2. ASSUME NEW r \in WithKey(arg[c].key), Find(c, r),
               Goto(c, "resume") \/ Goto(c, "end")
        PROVE  LocksAreHeld'
    <3>1. /\ pc[c] = "byKey" /\ pc'[c] \in {"resume", "end"} /\ advisory' = advisory
          /\ \A d \in Calls \ {c} : pc'[d] = pc[d]
      BY <1>2, <2>2 DEF SelectByKey
    <3>2. \A q \in Calls : rowLock'[q] \in {rowLock[q], c}
      BY <2>2 DEF Find
    <3> QED
      BY <3>1, <3>2
  <2> QED
    BY <1>2, <2>1, <2>2 DEF SelectByKey, Refuse
<1>3. ASSUME NEW c \in Calls, SelectByCustomer(c) PROVE LocksAreHeld'
  <2>1. CASE Goto(c, "customer") /\ UNCHANGED rowLock
    BY <1>3, <2>1 DEF SelectByCustomer
  <2>2. ASSUME NEW r \in OfCustomer(arg[c].customer), Find(c, r), Goto(c, "resume")
        PROVE  LocksAreHeld'
    BY <1>3, <2>2 DEF SelectByCustomer, Find
  <2> QED
    BY <1>3, <2>1, <2>2 DEF SelectByCustomer
<1>4. ASSUME NEW c \in Calls, SelectCustomer(c) \/ Insert(c) \/ InsertSteps(c) \/ Resume(c)
      PROVE  LocksAreHeld'
  <2>1. UNCHANGED locks /\ \A d \in Calls \ {c} : pc'[d] = pc[d]
    BY <1>4 DEF SelectCustomer, Insert, InsertSteps, Resume, Refuse
  <2>2. \/ pc[c] \in {"customer", "insert"} /\ pc'[c] \in {"insert", "steps", "end"}
        \/ pc[c] \in {"steps", "resume"} /\ pc'[c] \in {"commit", "end"}
    BY <1>4 DEF SelectCustomer, Insert, InsertSteps, Resume, Refuse
  <2> QED
    BY <2>1, <2>2
<1>5. ASSUME NEW c \in Calls, Commit(c) \/ End(c) \/ Crash(c) PROVE LocksAreHeld'
  <2>1. /\ \A x \in Customers : advisory'[x] # c /\ advisory'[x] \in {advisory[x], NoCall}
        /\ \A r \in Calls : rowLock'[r] # c /\ rowLock'[r] \in {rowLock[r], NoCall}
    BY <1>5 DEF Commit, End, Crash, Undo, Release
  <2>2. \A d \in Calls \ {c} : pc'[d] = pc[d]
    BY <1>5 DEF Commit, End, Crash, Answer
  <2> QED
    BY <2>1, <2>2
<1>6. ASSUME NEW c \in Calls, Throw(c) PROVE LocksAreHeld'
  BY <1>6 DEF Throw, Refuse
<1>7. ASSUME NEW r \in Calls,
             ClaimRequest(r) \/ EraseCustomer(r) \/ CompleteRequest(r) \/ FailRequest(r)
      PROVE  LocksAreHeld'
  BY <1>7 DEF ClaimRequest, EraseCustomer, CompleteRequest, FailRequest
<1>8. CASE UNCHANGED vars
  BY <1>8 DEF vars
<1> QED
  BY <1>1, <1>2, <1>3, <1>4, <1>5, <1>6, <1>7, <1>8 DEF Next, CallStep

(* The inductive invariant. *)
LEMMA Inductive == Spec => []IInv
<1>1. Init => IInv
  BY ApiAssumption DEF Init, IInv, TypeOK, Committed, InTransaction, Serialised, Locked, Customer,
     StillUnknown, OfCustomer, Requests, NoClash, Clash, FoundIsMine, Saved, ErrorsExplained, LocksAreHeld
<1>2. IInv /\ [Next]_vars => IInv'
  BY TypeStep, SerialisedStep, StillUnknownStep, NoClashStep, FoundIsMineStep,
     ErrorsExplainedStep, LocksAreHeldStep DEF IInv
<1> QED
  BY <1>1, <1>2, PTL DEF Spec

(* The state of the service keeps its types, and attempts never exceed      *)
(* max_attempts, for every number of calls, customers, keys and faults.     *)
THEOREM TypeCorrect == Spec => []TypeOK
<1>1. IInv => TypeOK
  BY DEF IInv
<1> QED
  BY <1>1, Inductive, PTL

(* A 202 of the POST route names a row of erasure_requests that exists for  *)
(* good and is of the customer that was asked for.                          *)
THEOREM AcceptedIsAlwaysSaved == Spec => []AcceptedIsSaved
<1>1. IInv => AcceptedIsSaved
  BY DEF IInv, FoundIsMine, AcceptedIsSaved, Accepted, Saved, Customer
<1> QED
  BY <1>1, Inductive, PTL

(* createOrGet answers every call for a customer with the same request,     *)
(* whatever the keys and the overlaps.                                      *)
THEOREM CustomerHasOneRequest == Spec => []OneRequestPerCustomer
<1>1. IInv => OneRequestPerCustomer
  <2> SUFFICES ASSUME IInv, NEW c \in Calls, NEW d \in Calls, Accepted(c), Accepted(d),
                      arg[c].customer = arg[d].customer
               PROVE  found[c] = found[d]
    BY DEF OneRequestPerCustomer
  <2>1. Saved(c) /\ Saved(d)
    BY DEF IInv, FoundIsMine, Accepted
  <2>2. ~Clash(found[c], found[d])
    BY <2>1 DEF IInv, NoClash, Saved, Requests, Committed
  <2> QED
    BY <2>1, <2>2 DEF Saved, Customer, Clash
<1> QED
  BY <1>1, Inductive, PTL

(* No call is answered 404 for a customer whose request was saved: the      *)
(* request is looked for before the customer row that erasure deletes.      *)
THEOREM SavedIsFound == Spec => []SavedIsNeverUnknown
<1>1. IInv => SavedIsNeverUnknown
  BY DEF IInv, StillUnknown, SavedIsNeverUnknown, OfCustomer, Requests, Committed, Customer
<1> QED
  BY <1>1, Inductive, PTL

(* Without faults, the only internal error is that of a key which another   *)
(* customer's request has taken: the advisory lock excludes the rest.       *)
THEOREM CallsOfACustomerAgree == Spec => []NoErrorWithinCustomer
<1>1. IInv => NoErrorWithinCustomer
  BY DEF IInv, ErrorsExplained, NoErrorWithinCustomer, Customer
<1> QED
  BY <1>1, Inductive, PTL

(* createOrGet never deadlocks: who holds a row or an uncommitted request   *)
(* waits for nobody, and who holds the advisory lock waits for those alone. *)
THEOREM CallsNeverDeadlock == Spec => []NoDeadlock
<1>1. IInv => NoDeadlock
  <2> SUFFICES ASSUME IInv, NEW c \in Calls, Waits(c)
               PROVE  \E d \in Calls : pc[d] \in InTransaction /\ ~Waits(d)
    BY DEF NoDeadlock
  <2> DEFINE GoesOn(d) == pc[d] \in {"steps", "resume", "commit", "end"}
  <2> USE DEF IInv, TypeOK
  <2>1. ASSUME NEW d \in Calls, GoesOn(d) PROVE pc[d] \in InTransaction /\ ~Waits(d)
    BY <2>1 DEF InTransaction, Waits
  <2>2. ASSUME NEW d \in Calls, Waits(d), pc[d] # "lock" PROVE \E h \in Calls : GoesOn(h)
    <3>1. CASE \E r \in Requests : ~Unlocked(r)
      BY <3>1 DEF LocksAreHeld, Unlocked, Requests
    <3>2. CASE \E r \in Calls : row[r] = "uncommitted"
      BY <3>2 DEF Serialised
    <3> QED
      BY <2>2, <3>1, <3>2 DEF Waits, WithKey, OfCustomer
  <2>3. CASE pc[c] # "lock"
    BY <2>1, <2>2, <2>3
  <2>4. CASE pc[c] = "lock"
    <3>1. PICK h \in Calls : advisory[arg[c].customer] = h
      BY <2>4 DEF Waits
    <3>2. pc[h] \in Locked \cup {"end"}
      BY <3>1 DEF LocksAreHeld
    <3>3. pc[h] \in InTransaction /\ pc[h] # "lock"
      BY <3>2 DEF Locked, InTransaction
    <3>4. CASE Waits(h)
      BY <2>1, <2>2, <3>3, <3>4
    <3> QED
      BY <3>3, <3>4
  <2> QED
    BY <2>3, <2>4
<1> QED
  BY <1>1, Inductive, PTL

(* A repost takes no request back from the worker and reopens none that is  *)
(* completed: FOR UPDATE holds the row from the reading to the reset.       *)
THEOREM OnlyFailedIsResumed == Spec => ResumesOnlyFailed
<1>1. ASSUME IInv, [Next]_vars
      PROVE  [\A r \in Requests : row'[r] = "pending" => row[r] \in {"pending", "failed"}]_vars
  <2> SUFFICES ASSUME Next, NEW r \in Requests, row'[r] = "pending"
               PROVE  row[r] \in {"pending", "failed"}
    BY <1>1
  <2> USE <1>1 DEF IInv, TypeOK, Requests, Committed, table
  <2>1. ASSUME NEW c \in Calls, Commit(c) PROVE row[r] \in {"pending", "failed"}
    <3>1. \/ found[c] = c /\ row[c] = "uncommitted"
          \/ found[c] \in Calls /\ row[found[c]] = "failed"
      BY <2>1 DEF Commit, FoundIsMine, Saved
    <3>2. row' = [row EXCEPT ![found[c]] = "pending"]
      BY <2>1 DEF Commit
    <3> QED
      BY <3>1, <3>2
  <2>2. ASSUME NEW c \in Calls, SelectByKey(c) PROVE row[r] \in {"pending", "failed"}
    BY <2>2 DEF SelectByKey
  <2>3. ASSUME NEW c \in Calls, CallStep(c), ~Commit(c), ~SelectByKey(c)
        PROVE  row[r] \in {"pending", "failed"}
    BY <2>3 DEF CallStep, Post, Lock, SelectByCustomer, SelectCustomer, Insert, InsertSteps,
                Resume, End, Undo
  <2>4. ASSUME NEW c \in Calls, Throw(c) \/ Crash(c) PROVE row[r] \in {"pending", "failed"}
    BY <2>4 DEF Throw, Crash, Undo
  <2>5. ASSUME NEW q \in Calls,
               ClaimRequest(q) \/ EraseCustomer(q) \/ CompleteRequest(q) \/ FailRequest(q)
        PROVE  row[r] \in {"pending", "failed"}
    BY <2>5 DEF ClaimRequest, EraseCustomer, CompleteRequest, FailRequest
  <2> QED
    BY <2>1, <2>2, <2>3, <2>4, <2>5 DEF Next
<1> QED
  BY <1>1, Inductive, PTL DEF Spec, ResumesOnlyFailed

-----------------------------------------------------------------------------
(* Each call takes place at once.  What is still to be seen of a call that  *)
(* is about to end its transaction is true when it ends: the row it found,  *)
(* whose lock it keeps, may be set going again exactly if it is, its        *)
(* customer is still there if it inserted, and a conflict stays one.        *)
Taken(c) == \E r \in Requests : arg[r].key = arg[c].key /\ Customer(r) # Customer(c)

Decided ==
  \A c \in Calls :
    /\ pc[c] = "commit" /\ row[found[c]] = "failed" => tries[found[c]] < MaxAttempts
    /\ pc[c] \in {"steps", "commit"} /\ row[c] = "uncommitted" => Customer(c) \in exists
    /\ pc[c] = "end" => code[c] \in {202, 404, 409, 500}
    /\ pc[c] = "end" /\ code[c] = 202 => rowLock[found[c]] = c /\ ~Eligible(found[c])
    /\ pc[c] = "end" /\ code[c] = 409 => Taken(c)

(* A key that is taken stays taken. *)
LEMMA TakenStays ==
  ASSUME TypeOK, Serialised, FoundIsMine, [Next]_vars, NEW c \in Calls, Taken(c)
  PROVE  Taken(c)'
<1>1. Requests \subseteq Requests'
  BY RequestsStay
<1>2. arg' = arg
  BY DEF Next, CallStep, Post, Lock, SelectByKey, SelectByCustomer, SelectCustomer, Insert,
         InsertSteps, Resume, Commit, End, Throw, Crash, ClaimRequest, EraseCustomer,
         CompleteRequest, FailRequest, call, vars
<1> QED
  BY <1>1, <1>2 DEF Taken, Customer

LEMMA DecidedStep ==
  ASSUME IInv, Decided, [Next]_vars
  PROVE  Decided'
<1> USE ApiAssumption DEF Goto, call, table, locks, Customer, TypeOK, InTransaction, Committed, Eligible
<1>a. TypeOK /\ Serialised /\ FoundIsMine /\ StillUnknown
  BY DEF IInv
<1>b. \A c \in Calls : Taken(c) => Taken(c)'
  BY <1>a, TakenStays
<1> DEFINE Good(c) ==
      /\ pc[c] = "commit" /\ row[found[c]] = "failed" => tries[found[c]] < MaxAttempts
      /\ pc[c] \in {"steps", "commit"} /\ row[c] = "uncommitted" => Customer(c) \in exists
      /\ pc[c] = "end" => code[c] \in {202, 404, 409, 500}
      /\ pc[c] = "end" /\ code[c] = 202 => rowLock[found[c]] = c /\ ~Eligible(found[c])
      /\ pc[c] = "end" /\ code[c] = 409 => Taken(c)
<1>c. ASSUME NEW c \in Calls, arg' = arg, exists' = exists,
             pc'[c] = pc[c], code'[c] = code[c], found'[c] = found[c],
             row'[c] = "uncommitted" <=> row[c] = "uncommitted",
             Saved(c) /\ rowLock[found[c]] = c =>
               /\ rowLock'[found[c]] = c /\ tries'[found[c]] = tries[found[c]]
               /\ row'[found[c]] = row[found[c]]
      PROVE  Good(c)'
  <2>1. pc[c] = "commit" /\ row'[found[c]] = "failed" => Saved(c) /\ rowLock[found[c]] = c
    BY <1>a, <1>c DEF FoundIsMine, Saved
  <2>2. pc[c] = "end" /\ code[c] = 202 => Saved(c)
    BY <1>a DEF FoundIsMine
  <2> QED
    BY <1>a, <1>b, <1>c, <2>1, <2>2 DEF Decided
<1>d. SUFFICES ASSUME NEW d \in Calls PROVE Good(d)'
  BY DEF Decided
<1> HIDE DEF Good
<1>1. ASSUME NEW c \in Calls, CallStep(c) \/ Throw(c) \/ Crash(c), c # d PROVE Good(d)'
  <2>1. arg' = arg /\ exists' = exists /\ tries' = tries
    BY <1>1, <1>a, KeySelected DEF CallStep, Post, Lock, SelectByCustomer, SelectCustomer, Insert,
       InsertSteps, Resume, Commit, End, Throw, Crash
  <2>2. pc'[d] = pc[d] /\ code'[d] = code[d] /\ found'[d] = found[d]
    <3>1. CASE SelectByKey(c)
      BY <1>1, <1>a, <3>1, KeySelected
    <3>2. CASE ~SelectByKey(c)
      BY <1>1, <1>a, <3>2 DEF CallStep, Post, Lock, SelectByCustomer, SelectCustomer, Insert,
         InsertSteps, Resume, Commit, End, Throw, Crash, Refuse, Find, Answer
    <3> QED
      BY <3>1, <3>2
  <2>3. row'[d] = "uncommitted" <=> row[d] = "uncommitted"
    <3>1. CASE Insert(c)
      BY <1>1, <1>a, <3>1 DEF Insert
    <3>2. CASE Commit(c)
      BY <1>1, <1>a, <3>2 DEF Commit, FoundIsMine, Saved, Requests
    <3>3. CASE End(c) \/ Crash(c)
      BY <1>1, <1>a, <3>3 DEF End, Crash, Undo
    <3>4. CASE SelectByKey(c)
      BY <1>a, <3>4, KeySelected
    <3> QED
      BY <1>1, <3>1, <3>2, <3>3, <3>4 DEF CallStep, Post, Lock, SelectByCustomer, SelectCustomer,
         InsertSteps, Resume, Throw
  <2>4. ASSUME Saved(d), rowLock[found[d]] = d
        PROVE  rowLock'[found[d]] = d /\ row'[found[d]] = row[found[d]]
    <3> DEFINE q == found[d]
    <3>1. q \in Calls /\ row[q] \in Committed /\ ~Unlocked(q) /\ rowLock[q] # c
      BY <1>1, <2>4 DEF Saved, Requests, Unlocked
    <3> HIDE DEF q
    <3>2. CASE Insert(c)
      BY <1>1, <1>a, <2>4, <3>1, <3>2 DEF Insert, Serialised, Locked, q
    <3>3. CASE Commit(c)
      <4>1. found[c] # q
        BY <1>a, <3>1, <3>3 DEF Commit, FoundIsMine
      <4> QED
        BY <1>a, <2>4, <3>1, <3>3, <4>1 DEF Commit, Release, q
    <3>4. CASE End(c) \/ Crash(c)
      BY <1>a, <2>4, <3>1, <3>4 DEF End, Crash, Undo, Release, q
    <3>5. CASE SelectByKey(c)
      BY <1>a, <2>4, <3>1, <3>5, KeySelected DEF Unlocked, q
    <3>6. CASE SelectByCustomer(c)
      BY <1>a, <2>4, <3>1, <3>6 DEF SelectByCustomer, OfCustomer, Requests, Find, q
    <3> QED
      BY <1>1, <2>4, <3>2, <3>3, <3>4, <3>5, <3>6 DEF CallStep, Post, Lock, SelectCustomer,
         InsertSteps, Resume, Throw, q
  <2> QED
    BY <1>c, <2>1, <2>2, <2>3, <2>4
<1>2. CASE Post(d) \/ Lock(d) \/ SelectByCustomer(d)
  BY <1>2, <1>a DEF Post, Lock, SelectByCustomer, Good
<1>3. CASE SelectByKey(d)
  <2>1. CASE pc'[d] # "end"
    BY <1>3, <1>a, <2>1, KeySelected DEF Good
  <2>2. CASE pc'[d] = "end"
    <3>1. PICK r \in WithKey(arg[d].key) : Refuse(d, 409) /\ arg[r].customer # arg[d].customer
      BY <1>3, <1>a, <2>2 DEF SelectByKey, Refuse
    <3>2. Taken(d)
      BY <3>1 DEF WithKey, Taken
    <3>3. code'[d] = 409
      BY <1>a, <3>1 DEF Refuse
    <3> QED
      BY <1>b, <2>2, <3>2, <3>3 DEF Good
  <2> QED
    BY <2>1, <2>2
<1>4. CASE SelectCustomer(d)
  BY <1>4, <1>a DEF SelectCustomer, Refuse, Good
<1>5. CASE Insert(d)
  <2>1. Customer(d) \in exists /\ exists' = exists /\ arg' = arg
    BY <1>5, <1>a DEF Insert, StillUnknown
  <2> QED
    BY <1>5, <1>a, <2>1 DEF Insert, Refuse, Good
<1>6. CASE InsertSteps(d)
  BY <1>6, <1>a DEF InsertSteps, Decided, FoundIsMine, Good
<1>7. CASE Resume(d)
  BY <1>7, <1>a DEF Resume, FoundIsMine, Saved, Requests, Serialised, Good
<1>8. CASE Commit(d) \/ End(d) \/ Crash(d)
  <2>1. pc'[d] \notin {"steps", "commit", "end"}
    BY <1>8, <1>a DEF Commit, End, Crash, Answer
  <2> QED
    BY <2>1 DEF Good
<1>9. CASE Throw(d)
  BY <1>9, <1>a DEF Throw, Refuse, Good
<1>10. ASSUME NEW r \in Calls, ClaimRequest(r) \/ CompleteRequest(r) \/ FailRequest(r) PROVE Good(d)'
  <2>1. UNCHANGED <<pc, arg, found, code, rowLock, exists>> /\ rowLock[r] = NoCall
    BY <1>10 DEF ClaimRequest, CompleteRequest, FailRequest, Unlocked
  <2>2. row[r] \in Committed /\ row'[r] \in Committed /\ \A q \in Calls : q # r => row'[q] = row[q] /\ tries'[q] = tries[q]
    BY <1>10, <1>a DEF ClaimRequest, CompleteRequest, FailRequest, Requests
  <2> QED
    BY <1>c, <2>1, <2>2 DEF Saved, Requests
<1>11. ASSUME NEW r \in Calls, EraseCustomer(r) PROVE Good(d)'
  <2>1. UNCHANGED <<pc, arg, found, code, row, tries, rowLock>>
    BY <1>11 DEF EraseCustomer
  <2>2. /\ exists' = exists \ {Customer(r)}
        /\ advisory[Customer(r)] = NoCall
    BY <1>11 DEF EraseCustomer
  <2>3. row[d] = "uncommitted" => Customer(d) # Customer(r)
    BY <1>a, <2>2 DEF Serialised
  <2> QED
    BY <1>a, <1>b, <2>1, <2>2, <2>3 DEF Decided, Good
<1>12. CASE UNCHANGED vars
  BY <1>c, <1>12 DEF vars, Saved, Requests
<1> QED
  BY <1>1, <1>2, <1>3, <1>4, <1>5, <1>6, <1>7, <1>8, <1>9, <1>10, <1>11, <1>12 DEF Next, CallStep

(* The atomic calls, of the state they are seen in.                         *)
Kept == [Atomic!Next]_(Atomic!vars)

Ans == [c \in Calls |-> IF pc[c] # "done" THEN <<0, NoCall>>
                        ELSE IF code[c] = 202 THEN <<202, found[c]>>
                        ELSE <<code[c], NoCall>>]

Sav == [r \in Calls |-> IF row[r] \in Committed THEN row[r] ELSE "none"]

LEMMA AtomicTables ==
  /\ Atomic!Requests = Requests
  /\ \A c \in Calls : /\ Atomic!OfCustomer(c) = OfCustomer(Customer(c))
                      /\ Atomic!WithKey(c) = WithKey(arg[c].key)
                      /\ Atomic!Failed(c) <=> Eligible(c)
                      /\ Atomic!KeyTaken(c) <=> Taken(c)
<1>1. Atomic!Requests = Requests
  BY DEF Atomic!Requests, Requests, Committed
<1>2. ASSUME NEW c \in Calls
      PROVE  /\ Atomic!OfCustomer(c) = OfCustomer(Customer(c))
             /\ Atomic!WithKey(c) = WithKey(arg[c].key)
  BY <1>1 DEF Atomic!OfCustomer, Atomic!WithKey, OfCustomer, WithKey, Customer
<1>3. ASSUME NEW c \in Calls PROVE Atomic!Failed(c) <=> Eligible(c)
  BY DEF Atomic!Failed, Eligible, Committed
<1>4. ASSUME NEW c \in Calls PROVE Atomic!KeyTaken(c) <=> Taken(c)
  BY <1>2 DEF Atomic!KeyTaken, Taken, OfCustomer, WithKey, Customer
<1> QED
  BY <1>1, <1>2, <1>3, <1>4

LEMMA SameAnswers ==
  ASSUME \A d \in Calls : /\ pc'[d] = "done" <=> pc[d] = "done"
                          /\ pc[d] = "done" => code'[d] = code[d] /\ found'[d] = found[d]
  PROVE  Ans' = Ans
BY DEF Ans

LEMMA SameSaved ==
  ASSUME \A r \in Calls : row'[r] = row[r] \/ (row[r] \notin Committed /\ row'[r] \notin Committed)
  PROVE  Sav' = Sav
BY DEF Sav

(* A step that callers cannot see, or only by the trouble it makes.         *)
LEMMA Silent ==
  ASSUME arg' = arg, tries' = tries, exists' = exists, Ans' = Ans, Sav' = Sav,
         faults \in Nat, faults' \in {faults, faults + 1}
  PROVE  Kept
<1>1. CASE faults' = faults
  BY <1>1 DEF Kept, Atomic!vars, Ans, Sav
<1>2. CASE faults' = faults + 1
  <2>1. Atomic!Trouble
    BY <1>2 DEF Atomic!Trouble, Ans, Sav
  <2> QED
    BY <2>1 DEF Kept, Atomic!Next
<1> QED
  BY <1>1, <1>2

(* What a call is answered when its transaction ends.                       *)
LEMMA Answered ==
  ASSUME NEW c \in Calls, pc[c] # "done", found' = found, NEW status \in {202, 404, 409, 500},
         pc'[c] = "done" /\ code'[c] = status,
         \A d \in Calls \ {c} : pc'[d] = pc[d] /\ code'[d] = code[d]
  PROVE  /\ Ans[c] = <<0, NoCall>>
         /\ status = 202 => Ans' = [Ans EXCEPT ![c] = <<202, found[c]>>]
         /\ status # 202 => Ans' = [Ans EXCEPT ![c] = <<status, NoCall>>]
<1> DEFINE told == IF status = 202 THEN <<202, found[c]>> ELSE <<status, NoCall>>
<1>1. Ans[c] = <<0, NoCall>>
  BY DEF Ans
<1>2. Ans'[c] = told
  BY DEF Ans
<1>3. \A d \in Calls \ {c} : Ans'[d] = Ans[d]
  BY DEF Ans
<1>4. Ans' = [Ans EXCEPT ![c] = told]
  <2>1. Ans' = [d \in Calls |-> Ans'[d]] /\ Ans = [d \in Calls |-> Ans[d]]
    BY DEF Ans
  <2> HIDE DEF told
  <2> QED
    BY <1>2, <1>3, <2>1
<1> QED
  BY <1>1, <1>4

(* Until its transaction ends a call is not seen, nor is one that dies.     *)
LEMMA Unseen ==
  ASSUME IInv, NEW c \in Calls,
         Throw(c) \/ Crash(c) \/ (CallStep(c) /\ ~Commit(c) /\ ~End(c))
  PROVE  Kept
<1> USE DEF IInv, TypeOK, Goto, table, locks, InTransaction
<1>1. arg' = arg /\ tries' = tries /\ exists' = exists
  <2>1. CASE SelectByKey(c)
    BY <2>1, KeySelected
  <2> QED
    BY <2>1 DEF CallStep, Post, Lock, SelectByCustomer, SelectCustomer, Insert, InsertSteps,
       Resume, Throw, Crash
<1>2. faults \in Nat /\ faults' \in {faults, faults + 1}
  <2>1. CASE SelectByKey(c)
    BY <2>1, KeySelected, ApiAssumption
  <2> QED
    BY <2>1, ApiAssumption DEF CallStep, Post, Lock, SelectByCustomer, SelectCustomer, Insert,
       InsertSteps, Resume, Throw, Crash, Fault
<1>3. \A d \in Calls : /\ pc'[d] = "done" <=> pc[d] = "done"
                       /\ pc[d] = "done" => code'[d] = code[d] /\ found'[d] = found[d]
  <2>1. CASE SelectByKey(c)
    BY <2>1, KeySelected
  <2>2. CASE ~SelectByKey(c)
    BY <2>2 DEF CallStep, Post, Lock, SelectByCustomer, SelectCustomer, Insert, InsertSteps,
       Resume, Throw, Crash, Refuse, Find
  <2> QED
    BY <2>1, <2>2
<1>4. \A r \in Calls : row'[r] = row[r] \/ (row[r] \notin Committed /\ row'[r] \notin Committed)
  <2>1. CASE SelectByKey(c)
    BY <2>1, KeySelected
  <2>2. CASE Insert(c)
    BY <2>2 DEF Insert, Serialised, Locked, Committed
  <2>3. CASE Crash(c)
    BY <2>3 DEF Crash, Undo, Committed
  <2> QED
    BY <2>1, <2>2, <2>3 DEF CallStep, Post, Lock, SelectByCustomer, SelectCustomer, InsertSteps,
       Resume, Throw
<1>5. Ans' = Ans
  BY <1>3, SameAnswers
<1>6. Sav' = Sav
  BY <1>4, SameSaved
<1> QED
  BY <1>1, <1>2, <1>5, <1>6, Silent

(* COMMIT is the instant of a call that inserts or resumes.                 *)
LEMMA CommitIsCall ==
  ASSUME IInv, Decided, NEW c \in Calls, Commit(c)
  PROVE  Kept
<1> USE DEF IInv, TypeOK
<1>1. pc[c] = "commit" /\ found' = found /\ UNCHANGED <<arg, tries, exists>> /\ row' = [row EXCEPT ![found[c]] = "pending"]
  BY DEF Commit
<1>a. pc'[c] = "done" /\ \A d \in Calls \ {c} : pc'[d] = pc[d] /\ code'[d] = code[d]
  BY DEF Commit, Answer, Goto
<1>2. found[c] \in Calls /\ Sav' = [Sav EXCEPT ![found[c]] = "pending"]
  <2>1. found[c] \in Calls
    BY <1>1 DEF FoundIsMine, Saved, Requests
  <2>2. /\ row'[found[c]] = "pending"
        /\ \A r \in Calls \ {found[c]} : row'[r] = row[r]
    BY <1>1, <2>1
  <2>3. /\ Sav'[found[c]] = "pending"
        /\ \A r \in Calls \ {found[c]} : Sav'[r] = Sav[r]
    BY <2>1, <2>2 DEF Sav, Committed
  <2>4. Sav' = [r \in Calls |-> Sav'[r]] /\ Sav = [r \in Calls |-> Sav[r]]
    BY DEF Sav
  <2> QED
    BY <2>1, <2>3, <2>4
<1>3. Atomic!Accept(c, found[c])
  <2>1. CASE code' = [code EXCEPT ![c] = 202] /\ UNCHANGED faults
    <3>1. Ans[c] = <<0, NoCall>> /\ Ans' = [Ans EXCEPT ![c] = <<202, found[c]>>]
      BY <1>1, <2>1, <1>a, Answered
    <3>2. Atomic!Reply(c, 202, found[c])
      BY <3>1 DEF Atomic!Reply, Atomic!Unanswered, Ans
    <3> QED
      BY <2>1, <3>2 DEF Atomic!Accept
  <2>2. CASE code' = [code EXCEPT ![c] = 500] /\ Fault
    <3>1. Ans[c] = <<0, NoCall>> /\ Ans' = [Ans EXCEPT ![c] = <<500, NoCall>>]
      BY <1>1, <2>2, <1>a, Answered
    <3>2. Atomic!Reply(c, 500, NoCall)
      BY <3>1 DEF Atomic!Reply, Atomic!Unanswered, Ans
    <3>3. (faults > 0)'
      BY <2>2, ApiAssumption DEF Fault
    <3> QED
      BY <3>2, <3>3 DEF Atomic!Accept
  <2> QED
    BY <2>1, <2>2 DEF Commit, Answer
<1>4. CASE found[c] = c /\ row[c] = "uncommitted"
  <2>1. \A r \in Requests : ~Clash(r, c)
    BY <1>4 DEF NoClash, Requests, Committed
  <2>2. OfCustomer(Customer(c)) = {} /\ WithKey(arg[c].key) = {}
    BY <1>4, <2>1 DEF Clash, OfCustomer, WithKey, Requests, Committed, Customer
  <2>3. Customer(c) \in exists
    BY <1>1, <1>4 DEF Decided
  <2>4. Atomic!Create(c)
    BY <1>1, <1>2, <1>3, <1>4, <2>2, <2>3, AtomicTables DEF Atomic!Create, Customer, Sav
  <2> QED
    BY <2>4 DEF Kept, Atomic!Next
<1>5. CASE Saved(c) /\ row[found[c]] = "failed"
  <2>1. found[c] \in OfCustomer(Customer(c)) /\ Eligible(found[c])
    BY <1>1, <1>5 DEF Saved, OfCustomer, Customer, Decided, Eligible
  <2>2. PICK r \in Calls : r = found[c]
    BY <1>2
  <2>3. Atomic!Accept(c, r)
    BY <1>3, <2>2 DEF Atomic!Accept, Atomic!Reply
  <2>4. Atomic!Repost(c, r)
    BY <1>1, <1>2, <2>1, <2>2, <2>3, AtomicTables DEF Atomic!Repost, Sav
  <2> QED
    BY <2>4 DEF Kept, Atomic!Next
<1> QED
  BY <1>1, <1>4, <1>5 DEF FoundIsMine

(* The end of its transaction is the instant of a call that changes nothing.*)
LEMMA EndIsCall ==
  ASSUME IInv, Decided, NEW c \in Calls, End(c)
  PROVE  Kept
<1> USE DEF IInv, TypeOK
<1>1. pc[c] = "end" /\ found' = found /\ UNCHANGED <<arg, tries, exists>>
  BY DEF End
<1>a. pc'[c] = "done" /\ \A d \in Calls \ {c} : pc'[d] = pc[d] /\ code'[d] = code[d]
  BY DEF End, Answer, Goto
<1>2. Sav' = Sav
  <2>1. \A r \in Calls : row'[r] = row[r] \/ (row[r] \notin Committed /\ row'[r] \notin Committed)
    BY DEF End, Undo, Committed
  <2> QED
    BY <2>1, SameSaved
<1>3. code[c] \in {202, 404, 409, 500}
  BY <1>1 DEF Decided
<1>4. CASE code' = [code EXCEPT ![c] = 500] /\ Fault
  <2>1. Ans[c] = <<0, NoCall>> /\ Ans' = [Ans EXCEPT ![c] = <<500, NoCall>>]
    BY <1>1, <1>4, <1>a, Answered
  <2>2. Atomic!Reply(c, 500, NoCall)
    BY <2>1 DEF Atomic!Reply, Atomic!Unanswered, Ans
  <2>3. (faults > 0)'
    BY <1>4, ApiAssumption DEF Fault
  <2>4. Atomic!Break(c)
    BY <1>1, <1>2, <2>2, <2>3 DEF Atomic!Break, Sav
  <2> QED
    BY <2>4 DEF Kept, Atomic!Next
<1>5. CASE code' = [code EXCEPT ![c] = code[c]] /\ UNCHANGED faults
  <2>1. /\ Ans[c] = <<0, NoCall>>
        /\ code[c] = 202 => Ans' = [Ans EXCEPT ![c] = <<202, found[c]>>]
        /\ code[c] # 202 => Ans' = [Ans EXCEPT ![c] = <<code[c], NoCall>>]
    BY <1>1, <1>3, <1>5, <1>a, Answered
  <2>2. CASE code[c] = 202
    <3>1. found[c] \in OfCustomer(Customer(c)) /\ found[c] \in Calls /\ ~Eligible(found[c])
      BY <1>1, <2>2 DEF FoundIsMine, Saved, OfCustomer, Customer, Requests, Decided
    <3>2. PICK r \in Calls : r = found[c]
      BY <3>1
    <3>3. Atomic!Accept(c, r)
      BY <1>5, <2>1, <2>2, <3>2 DEF Atomic!Accept, Atomic!Reply, Atomic!Unanswered, Ans
    <3>4. Atomic!Repost(c, r)
      BY <1>1, <1>2, <3>1, <3>2, <3>3, AtomicTables DEF Atomic!Repost, Sav
    <3> QED
      BY <3>4 DEF Kept, Atomic!Next
  <2>3. CASE code[c] = 404
    <3>1. Customer(c) \notin exists /\ OfCustomer(Customer(c)) = {}
      BY <1>1, <2>3 DEF StillUnknown, OfCustomer, Requests, Committed, Customer
    <3>2. Atomic!Reply(c, 404, NoCall)
      BY <2>1, <2>3 DEF Atomic!Reply, Atomic!Unanswered, Ans
    <3>3. Atomic!Unknown(c)
      BY <1>1, <1>2, <1>5, <3>1, <3>2, AtomicTables DEF Atomic!Unknown, Customer, Sav
    <3> QED
      BY <3>3 DEF Kept, Atomic!Next
  <2>4. CASE code[c] = 409
    <3>1. Taken(c)
      BY <1>1, <2>4 DEF Decided
    <3>2. Atomic!Reply(c, 409, NoCall)
      BY <2>1, <2>4 DEF Atomic!Reply, Atomic!Unanswered, Ans
    <3>3. Atomic!Conflict(c)
      BY <1>1, <1>2, <1>5, <3>1, <3>2, AtomicTables DEF Atomic!Conflict, Sav
    <3> QED
      BY <3>3 DEF Kept, Atomic!Next
  <2>5. CASE code[c] = 500
    <3>1. faults > 0 \/ Taken(c)
      BY <2>5, ApiAssumption DEF ErrorsExplained, Taken
    <3>2. Atomic!Reply(c, 500, NoCall)
      BY <2>1, <2>5 DEF Atomic!Reply, Atomic!Unanswered, Ans
    <3>3. Atomic!Break(c)
      BY <1>1, <1>2, <1>5, <3>1, <3>2, AtomicTables DEF Atomic!Break, Sav
    <3> QED
      BY <3>3 DEF Kept, Atomic!Next
  <2> QED
    BY <1>3, <2>2, <2>3, <2>4, <2>5
<1> QED
  BY <1>4, <1>5 DEF End, Answer

(* The steps of the worker are those of the atomic one.                     *)
LEMMA WorkerIsSeen ==
  ASSUME IInv, NEW r \in Calls,
         ClaimRequest(r) \/ EraseCustomer(r) \/ CompleteRequest(r) \/ FailRequest(r)
  PROVE  Kept
<1> USE DEF IInv, TypeOK
<1>1. Ans' = Ans /\ arg' = arg /\ faults' = faults
  <2>1. UNCHANGED <<pc, arg, found, code, faults>>
    BY DEF ClaimRequest, EraseCustomer, CompleteRequest, FailRequest, call
  <2> QED
    BY <2>1 DEF Ans
<1>2. ASSUME NEW status \in Committed, r \in Requests, row' = [row EXCEPT ![r] = status]
      PROVE  Sav' = [Sav EXCEPT ![r] = status]
  BY <1>2 DEF Sav, Requests
<1>3. r \in Requests => Sav[r] = row[r]
  BY DEF Sav, Requests
<1>4. CASE ClaimRequest(r)
  <2>1. row[r] \in {"pending", "failed"} /\ r \in Requests
    BY <1>4 DEF ClaimRequest, Requests, Committed
  <2>2. Sav' = [Sav EXCEPT ![r] = "processing"]
    BY <1>2, <1>4, <2>1 DEF ClaimRequest, Committed
  <2>3. Atomic!Claim(r)
    BY <1>1, <1>3, <1>4, <2>1, <2>2 DEF Atomic!Claim, ClaimRequest, Ans, Sav
  <2> QED
    BY <2>3 DEF Kept, Atomic!Next
<1>5. CASE EraseCustomer(r)
  <2>1. Sav' = Sav
    BY <1>5 DEF EraseCustomer, table, Sav
  <2>2. Atomic!Erase(r)
    BY <1>1, <1>5, <2>1, AtomicTables DEF Atomic!Erase, EraseCustomer, table, Ans, Sav
  <2> QED
    BY <2>2 DEF Kept, Atomic!Next
<1>6. CASE CompleteRequest(r)
  <2>1. Sav' = [Sav EXCEPT ![r] = "completed"]
    BY <1>2, <1>6 DEF CompleteRequest, Committed
  <2>2. Atomic!Finish(r, "completed")
    BY <1>1, <1>6, <2>1, AtomicTables DEF Atomic!Finish, CompleteRequest, Ans, Sav
  <2> QED
    BY <2>2 DEF Kept, Atomic!Next
<1>7. CASE FailRequest(r)
  <2>1. Sav' = [Sav EXCEPT ![r] = "failed"]
    BY <1>2, <1>7 DEF FailRequest, Committed
  <2>2. Atomic!Finish(r, "failed")
    BY <1>1, <1>7, <2>1, AtomicTables DEF Atomic!Finish, FailRequest, Ans, Sav
  <2> QED
    BY <2>2 DEF Kept, Atomic!Next
<1> QED
  BY <1>4, <1>5, <1>6, <1>7

(* Whatever overlaps, the calls of createOrGet take place one by one, each  *)
(* decided on what the tables hold at the end of its transaction.           *)
THEOREM CallsTakePlaceAtOnce == Spec => CallsAreAtomic
<1>1. Init => Atomic!Init /\ Decided
  <2>1. Init => Ans = [c \in Calls |-> <<0, NoCall>>] /\ Sav = [r \in Calls |-> "none"]
    BY DEF Init, Ans, Sav, Committed
  <2> QED
    BY <2>1 DEF Init, Atomic!Init, Atomic!Unanswered, Ans, Sav, Decided
<1>2. IInv /\ Decided /\ [Next]_vars => Decided'
  BY DecidedStep
<1>3. IInv /\ Decided /\ [Next]_vars => [Atomic!Next]_(Atomic!vars)
  <2> SUFFICES ASSUME IInv, Decided, [Next]_vars PROVE Kept
    BY DEF Kept
  <2>1. CASE UNCHANGED vars
    <3>1. Ans' = Ans /\ Sav' = Sav
      BY <2>1 DEF vars, Ans, Sav
    <3>2. faults \in Nat
      BY ApiAssumption DEF IInv, TypeOK
    <3> QED
      BY <2>1, <3>1, <3>2, Silent DEF vars
  <2> QED
    BY <2>1, Unseen, CommitIsCall, EndIsCall, WorkerIsSeen DEF Next
<1> QED
  BY <1>1, <1>2, <1>3, Inductive, PTL DEF Spec, CallsAreAtomic, Atomic!Spec
=============================================================================
