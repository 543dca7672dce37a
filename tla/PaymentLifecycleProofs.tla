----------------------- MODULE PaymentLifecycleProofs -----------------------
(***************************************************************************)
(* Proofs about PaymentLifecycle for any calls, refunds, amounts, attempts *)
(* and faults: types, what the ledger tells, how calls are answered, where *)
(* a second receipt comes from, when refunds exceed the capture and what   *)
(* the status says.                                                        *)
(*                                                                         *)
(* What stands in the ledger rests on a chain: one call alone reaches the  *)
(* processor, so that what the processor has settled is settled; a status  *)
(* that allows a refund, a refund request past its first read and a refund *)
(* that the processor took all rest on the posted capture; and the event   *)
(* of a refund exists only if the processor took it.                       *)
(*                                                                         *)
(* That refunds stay within the capture rests on the order in which they   *)
(* saw each other: of any set of refunds in which, of every two, one was   *)
(* summed up with the row of the other there, the one inserted last fits   *)
(* next to the rest (Fits).                                                *)
(***************************************************************************)
EXTENDS PaymentSums

(* The webhooks: attempts, and events that are there were sent.             *)
Hooked ==
  /\ \A h \in Hooks : /\ hook[h] \in {"absent", "pending"} => tries[h] = 0
                      /\ hook[h] = "retry" => tries[h] < MaxTries
  /\ \A r \in Refunds : hook[r] # "absent" => r \in accepted

OneCaller ==
  /\ \A c \in Calls : pc[c] = "prepared" => provider = "none"
  /\ \A c, d \in Calls : pc[c] = "prepared" /\ pc[d] = "prepared" => c = d
  /\ key = "free" => provider = "none" /\ \A c \in Calls : pc[c] = "start"

Backed ==
  /\ status \in Refundable \cup {"refunded"} => Captured
  /\ \A r \in Refunds : pc[r] # "start" => Captured
  /\ accepted # {} => Captured

PayInv == TypeOK /\ Hooked /\ OneCaller /\ Backed /\ LedgerTellsTruth

-----------------------------------------------------------------------------
LEMMA Bounds == MaxTries \in Nat /\ MaxTries > 0 /\ MaxFaults \in Nat
BY BoundsAssumption

LEMMA FaultType ==
  ASSUME faults \in 0 .. MaxFaults, lost \in BOOLEAN, NoFault \/ Fault \/ FatalFault
  PROVE  faults' \in 0 .. MaxFaults /\ lost' \in BOOLEAN
<1>1. CASE NoFault
  BY <1>1 DEF NoFault
<1>2. CASE Fault \/ FatalFault
  <2>1. faults \in Nat /\ faults < MaxFaults /\ faults' = faults + 1
    BY <1>2, Bounds DEF Fault, FatalFault
  <2>2. lost' \in BOOLEAN
    BY <1>2 DEF Fault, FatalFault
  <2> QED
    BY <2>1, <2>2, Bounds
<1> QED
  BY <1>1, <1>2

LEMMA HashType == TypeOK => hash \in [Calls -> {1, 2}]
<1> SUFFICES ASSUME TypeOK PROVE hash \in [Calls -> {1, 2}]
  OBVIOUS
<1> DEFINE case == [outcome |-> outcome, mode |-> mode, hash |-> hash, size |-> size]
<1>1. case.hash \in [Calls -> {1, 2}]
  BY CasesAssumption DEF TypeOK
<1> QED
  BY <1>1

LEMMA GotoType ==
  ASSUME TypeOK, NEW q \in Calls \cup Refunds,
         NEW s \in {"start", "prepared", "accepted", "refused", "read", "summed", "inserted", "done"},
         Goto(q, s)
  PROVE  pc' \in [Calls \cup Refunds -> {"start", "prepared", "accepted", "refused", "read",
                                         "summed", "inserted", "done"}]
BY DEF TypeOK, Goto

LEMMA PostType ==
  ASSUME TypeOK, NEW e \in Entries, Post(e)
  PROVE  posted' \in [Entries -> Nat]
<1>1. (IF posted[e] = 0 THEN 1 ELSE posted[e]) \in Nat
  BY DEF TypeOK
<1> QED
  BY <1>1 DEF TypeOK, Post

LEMMA TypeStep == TypeOK /\ Hooked /\ [Next]_vars => TypeOK'
<1> SUFFICES ASSUME TypeOK, Hooked, [Next]_vars PROVE TypeOK'
  OBVIOUS
<1>1. ASSUME NEW c \in Calls, Prepare(c) PROVE TypeOK'
  <2>1. hash[c] \in {1, 2}
    BY HashType
  <2>2. pc' \in [Calls \cup Refunds -> {"start", "prepared", "accepted", "refused", "read",
                                         "summed", "inserted", "done"}]
    BY <1>1 DEF TypeOK, Prepare, Goto, Answer
  <2>3. answer' \in [Calls -> {"none", "202", "409", "500", "502"}]
    BY <1>1 DEF TypeOK, Prepare, Answer
  <2>4. faults' \in 0 .. MaxFaults /\ lost' \in BOOLEAN
    BY <1>1, FaultType DEF TypeOK, Prepare
  <2> QED
    BY <1>1, <2>1, <2>2, <2>3, <2>4 DEF TypeOK, Prepare, choice, processor, hooks
<1>2. ASSUME NEW c \in Calls, Repeat(c) PROVE TypeOK'
  BY <1>2 DEF TypeOK, Repeat, Replay, Goto, Answer, choice, tables, processor, hooks
<1>3. ASSUME NEW c \in Calls, CallProcessor(c) PROVE TypeOK'
  BY <1>3, FaultType DEF TypeOK, CallProcessor, Goto, choice, tables, hooks
<1>4. ASSUME NEW c \in Calls, Submit(c) PROVE TypeOK'
  <2>1. pc' \in [Calls \cup Refunds -> {"start", "prepared", "accepted", "refused", "read",
                                         "summed", "inserted", "done"}]
    BY <1>4 DEF TypeOK, Submit, Goto, Answer
  <2>2. answer' \in [Calls -> {"none", "202", "409", "500", "502"}]
    BY <1>4 DEF TypeOK, Submit, Answer
  <2>3. linked' \in BOOLEAN /\ key' \in {"free", "reserved", "202", "502"}
        /\ attempt' \in {"none", "pending", "submitted", "succeeded", "failed"}
    BY <1>4 DEF TypeOK, Submit
  <2>4. faults' \in 0 .. MaxFaults /\ lost' \in BOOLEAN
    BY <1>4, FaultType DEF TypeOK, Submit
  <2> QED
    BY <1>4, <2>1, <2>2, <2>3, <2>4 DEF TypeOK, Submit, choice, processor, hooks
<1>5. ASSUME NEW c \in Calls, FailPayment(c) PROVE TypeOK'
  BY <1>5, FaultType DEF TypeOK, FailPayment, Goto, Answer, choice, processor, hooks
<1>6. CASE Settle
  BY <1>6 DEF TypeOK, Settle, choice, tables, hooks, requests
<1>7. ASSUME NEW h \in Hooks, Deliver(h) PROVE TypeOK'
  BY <1>7, FaultType DEF TypeOK, Deliver, choice, tables, processor, requests
<1>8. ASSUME NEW h \in Hooks, Claim(h) PROVE TypeOK'
  <2>1. tries[h] < MaxTries /\ tries[h] \in Nat
    BY <1>8, Bounds DEF Claim, Claimable, Hooked, TypeOK
  <2>2. tries' \in [Hooks -> 0 .. MaxTries]
    BY <1>8, <2>1, Bounds DEF Claim, TypeOK
  <2> QED
    BY <1>8, <2>2 DEF TypeOK, Claim, choice, tables, processor, requests
<1>9. ASSUME NEW h \in Hooks, Process(h) PROVE TypeOK'
  <2>1. hook' \in [Hooks -> {"absent", "lost", "pending", "processing", "retry", "processed",
                              "dead", "abandoned"}]
    BY <1>9 DEF TypeOK, Process, GiveBack
  <2>2. faults' \in 0 .. MaxFaults /\ lost' \in BOOLEAN
    BY <1>9, FaultType DEF TypeOK, Process, GiveBack
  <2>3. /\ status' \in {"none", "processing", "failed", "refunded"} \cup Refundable
        /\ attempt' \in {"none", "pending", "submitted", "succeeded", "failed"}
        /\ posted' \in [Entries -> Nat] /\ receipts' \in Nat
        /\ refund' \in [Refunds -> {"none", "pending", "succeeded", "failed"}]
    <3>1. ASSUME PaymentSucceeded, UNCHANGED refund PROVE <2>3!:
      <4>1. posted' \in [Entries -> Nat]
        BY <3>1, PostType DEF TypeOK, PaymentSucceeded, Entries
      <4>2. receipts' \in Nat
        BY <3>1 DEF TypeOK, PaymentSucceeded
      <4> QED
        BY <3>1, <4>1, <4>2 DEF TypeOK, PaymentSucceeded, Refundable
    <3>2. ASSUME PaymentFailed \/ PaymentProcessing, UNCHANGED refund PROVE <2>3!:
      BY <3>2 DEF TypeOK, PaymentFailed, PaymentProcessing
    <3>3. ASSUME NEW r \in Refunds, RefundSucceeded(r) PROVE <2>3!:
      <4>1. posted' \in [Entries -> Nat]
        BY <3>3, PostType DEF TypeOK, RefundSucceeded, Entries
      <4> QED
        BY <3>3, <4>1 DEF TypeOK, RefundSucceeded, Refundable
    <3> QED
      BY <1>9, <3>1, <3>2, <3>3 DEF Process, Apply, Hooks
  <2> QED
    BY <1>9, <2>1, <2>2, <2>3 DEF TypeOK, Process, choice, processor, requests
<1>10. ASSUME NEW h \in Hooks, ProcessFails(h) PROVE TypeOK'
  BY <1>10, FaultType DEF TypeOK, ProcessFails, GiveBack, choice, tables, processor, requests
<1>11. ASSUME NEW h \in Hooks, WorkerDies(h) PROVE TypeOK'
  BY <1>11, FaultType DEF TypeOK, WorkerDies, choice, tables, processor, requests
<1>12. ASSUME NEW r \in Refunds, ReadPayment(r) PROVE TypeOK'
  BY <1>12 DEF TypeOK, ReadPayment, Goto, choice, tables, processor, hooks
<1>13. ASSUME NEW r \in Refunds, SumRefunds(r) PROVE TypeOK'
  BY <1>13 DEF TypeOK, SumRefunds, Goto, choice, tables, processor, hooks
<1>14. ASSUME NEW r \in Refunds, InsertRefund(r) PROVE TypeOK'
  BY <1>14, FaultType DEF TypeOK, InsertRefund, Goto, choice, processor, hooks
<1>15. ASSUME NEW r \in Refunds, CallRefund(r) PROVE TypeOK'
  BY <1>15, FaultType DEF TypeOK, CallRefund, Goto, choice, tables, hooks
<1>16. ASSUME NEW r \in Refunds, RecordRefund(r) PROVE TypeOK'
  BY <1>16, FaultType DEF TypeOK, RecordRefund, Goto, choice, tables, processor, hooks
<1>17. ASSUME NEW r \in Refunds, FailRefund(r) PROVE TypeOK'
  BY <1>17, FaultType DEF TypeOK, FailRefund, Goto, choice, processor, hooks
<1>18. CASE ServiceDies
  BY <1>18, FaultType DEF TypeOK, ServiceDies, choice, tables, hooks
<1>19. CASE UNCHANGED vars
  BY <1>19 DEF TypeOK, vars, choice, tables, processor, hooks, requests
<1> QED
  BY <1>1, <1>2, <1>3, <1>4, <1>5, <1>6, <1>7, <1>8, <1>9, <1>10, <1>11, <1>12, <1>13,
     <1>14, <1>15, <1>16, <1>17, <1>18, <1>19
  DEF Next, CreateStep, RefundStep, WebhookStep

-----------------------------------------------------------------------------
(* Attempts and events.                                                     *)

LEMMA HookedStep == TypeOK /\ Hooked /\ [Next]_vars => Hooked'
<1> SUFFICES ASSUME TypeOK, Hooked, [Next]_vars PROVE Hooked'
  OBVIOUS
<1>1. ASSUME hook' = hook, tries' = tries, accepted \subseteq accepted' PROVE Hooked'
  BY <1>1 DEF Hooked
<1>2. ASSUME NEW h \in Hooks, Deliver(h) PROVE Hooked'
  <2>1. hook' = [hook EXCEPT ![h] = "pending"] \/ hook' = [hook EXCEPT ![h] = "lost"]
    BY <1>2 DEF Deliver
  <2>2. tries' = tries /\ accepted' = accepted /\ hook[h] = "absent"
    BY <1>2 DEF Deliver, processor
  <2>3. h \in Refunds => h \in accepted
    BY <1>2, NamesAssumption DEF Deliver, Sent
  <2> QED
    BY <2>1, <2>2, <2>3 DEF Hooked, TypeOK, Hooks
<1>3. ASSUME NEW h \in Hooks, Claim(h) PROVE Hooked'
  <2>1. hook' = [hook EXCEPT ![h] = "processing"] /\ hook[h] # "absent"
    BY <1>3 DEF Claim, Claimable
  <2>2. \A g \in Hooks : g # h => tries'[g] = tries[g]
    BY <1>3 DEF Claim, TypeOK
  <2>3. accepted' = accepted
    BY <1>3 DEF Claim, processor
  <2> QED
    BY <2>1, <2>2, <2>3 DEF Hooked, TypeOK, Hooks
<1>4. ASSUME NEW h \in Hooks, hook[h] = "processing", tries' = tries, accepted' = accepted,
             \/ hook' = [hook EXCEPT ![h] = "processed"]
             \/ hook' = [hook EXCEPT ![h] = "abandoned"]
             \/ GiveBack(h)
      PROVE  Hooked'
  <2>1. \A g \in Hooks : g # h => hook'[g] = hook[g]
    BY <1>4 DEF GiveBack, TypeOK
  <2>2. /\ hook'[h] \notin {"absent", "pending"}
        /\ hook'[h] = "retry" => tries[h] < MaxTries
    BY <1>4 DEF GiveBack, TypeOK
  <2> QED
    BY <1>4, <2>1, <2>2 DEF Hooked, TypeOK, Hooks
<1>5. ASSUME NEW h \in Hooks, Process(h) \/ ProcessFails(h) \/ WorkerDies(h) PROVE Hooked'
  BY <1>4, <1>5 DEF Process, ProcessFails, WorkerDies, processor
<1>6. ASSUME NEW c \in Calls, Prepare(c) \/ Repeat(c) \/ CreateStep(c) PROVE Hooked'
  BY <1>1, <1>6 DEF Prepare, Repeat, CreateStep, CallProcessor, Submit, FailPayment,
                    hooks, processor
<1>7. ASSUME NEW r \in Refunds, ReadPayment(r) \/ RefundStep(r) PROVE Hooked'
  BY <1>1, <1>7 DEF ReadPayment, RefundStep, SumRefunds, InsertRefund, CallRefund, RecordRefund,
                    FailRefund, hooks, processor
<1>8. CASE Settle \/ ServiceDies \/ UNCHANGED vars
  BY <1>1, <1>8 DEF Settle, ServiceDies, vars, hooks, processor
<1> QED
  BY <1>2, <1>3, <1>5, <1>6, <1>7, <1>8 DEF Next, WebhookStep

-----------------------------------------------------------------------------
(* The key lets one call pass.                                              *)

LEMMA OneCallerStep == TypeOK /\ OneCaller /\ [Next]_vars => OneCaller'
<1> SUFFICES ASSUME TypeOK, OneCaller, [Next]_vars PROVE OneCaller'
  OBVIOUS
<1>1. ASSUME provider' = provider, key' = key \/ key' # "free",
             \A c \in Calls : pc'[c] = pc[c] \/ (key' # "free" /\ pc'[c] # "prepared")
      PROVE  OneCaller'
  BY <1>1 DEF OneCaller
<1>2. ASSUME NEW c \in Calls, Prepare(c) PROVE OneCaller'
  <2>1. \A d \in Calls : d # c => pc'[d] = "start"
    BY <1>2 DEF Prepare, Goto, Answer, OneCaller, TypeOK
  <2> QED
    BY <1>2, <2>1 DEF Prepare, OneCaller, processor
<1>3. ASSUME NEW c \in Calls, CallProcessor(c) PROVE OneCaller'
  <2>1. key' = key /\ key # "free"
    BY <1>3 DEF CallProcessor, OneCaller, tables
  <2>2. \A d \in Calls : pc'[d] # "prepared"
    BY <1>3 DEF CallProcessor, Goto, OneCaller, TypeOK
  <2> QED
    BY <2>1, <2>2 DEF OneCaller
<1>4. ASSUME NEW c \in Calls, Repeat(c) \/ Submit(c) \/ FailPayment(c) PROVE OneCaller'
  <2>1. key' # "free" /\ provider' = provider
    BY <1>4 DEF Repeat, Submit, FailPayment, OneCaller, tables, processor
  <2>2. \A d \in Calls : pc'[d] = pc[d] \/ pc'[d] # "prepared"
    BY <1>4 DEF Repeat, Submit, FailPayment, Goto, Answer, TypeOK
  <2> QED
    BY <1>1, <2>1, <2>2
<1>5. CASE Settle
  BY <1>5 DEF Settle, OneCaller, tables, requests
<1>6. ASSUME NEW r \in Refunds, ReadPayment(r) \/ RefundStep(r) PROVE OneCaller'
  <2>1. key' = key /\ provider' = provider
    BY <1>6 DEF ReadPayment, RefundStep, SumRefunds, InsertRefund, CallRefund, RecordRefund,
                FailRefund, tables, processor
  <2>2. \A c \in Calls : pc'[c] = pc[c]
    <3>1. \A c \in Calls : c # r
      BY NamesAssumption
    <3> QED
      BY <1>6, <3>1 DEF ReadPayment, RefundStep, SumRefunds, InsertRefund, CallRefund,
                        RecordRefund, FailRefund, Goto, TypeOK
  <2> QED
    BY <1>1, <2>1, <2>2
<1>7. CASE ServiceDies
  BY <1>1, <1>7 DEF ServiceDies, tables, TypeOK
<1>8. ASSUME NEW h \in Hooks, WebhookStep(h) \/ ProcessFails(h) \/ WorkerDies(h) PROVE OneCaller'
  BY <1>1, <1>8 DEF WebhookStep, Deliver, Claim, Process, ProcessFails, WorkerDies,
                    tables, processor, requests
<1>9. CASE UNCHANGED vars
  BY <1>1, <1>9 DEF vars, tables, processor, requests
<1> QED
  BY <1>2, <1>3, <1>4, <1>5, <1>6, <1>7, <1>8, <1>9 DEF Next, CreateStep

-----------------------------------------------------------------------------
(* The ledger.                                                              *)

LedgerInv == Backed /\ LedgerTellsTruth

(* Steps that post nothing.                                                 *)
LEMMA LedgerFrame ==
  ASSUME TypeOK, LedgerInv, posted' = posted, accepted \subseteq accepted',
         provider = "succeeded" => provider' = "succeeded",
         status' = status \/ status' \notin Refundable \cup {"refunded"},
         \A r \in Refunds : pc'[r] # "start" => Captured,
         accepted' # {} => Captured
  PROVE  LedgerInv'
BY DEF LedgerInv, Backed, LedgerTellsTruth, Captured, PostedRefunds, Posted

LEMMA LedgerStep == PayInv /\ [Next]_vars => LedgerInv'
<1> SUFFICES ASSUME PayInv, [Next]_vars PROVE LedgerInv'
  OBVIOUS
<1>a. TypeOK /\ LedgerInv /\ OneCaller /\ Hooked
  BY DEF PayInv, LedgerInv
<1> USE <1>a
<1>0. ASSUME posted' = posted, accepted' = accepted,
             provider = "succeeded" => provider' = "succeeded",
             status' = status \/ status' \notin Refundable \cup {"refunded"},
             \A r \in Refunds : pc'[r] = pc[r]
      PROVE  LedgerInv'
  BY <1>0, LedgerFrame DEF LedgerInv, Backed
<1>1. ASSUME NEW c \in Calls, Prepare(c) \/ Repeat(c) \/ CreateStep(c) PROVE LedgerInv'
  <2>1. posted' = posted /\ accepted' = accepted
    BY <1>1 DEF Prepare, Repeat, CreateStep, CallProcessor, Submit, FailPayment, tables, processor
  <2>2. provider = "succeeded" => provider' = "succeeded"
    BY <1>1 DEF Prepare, Repeat, CreateStep, CallProcessor, Submit, FailPayment, processor, OneCaller
  <2>3. status' = status \/ status' \notin Refundable \cup {"refunded"}
    BY <1>1 DEF Prepare, Repeat, CreateStep, CallProcessor, Submit, FailPayment, tables, Refundable
  <2>4. \A r \in Refunds : pc'[r] = pc[r]
    <3>1. \A r \in Refunds : c # r
      BY NamesAssumption
    <3> QED
      BY <1>1, <3>1 DEF Prepare, Repeat, CreateStep, CallProcessor, Submit, FailPayment,
                        Goto, Answer, TypeOK
  <2> QED
    BY <1>0, <2>1, <2>2, <2>3, <2>4
<1>2. CASE Settle \/ UNCHANGED vars
  BY <1>0, <1>2 DEF Settle, vars, tables, processor, requests
<1>3. ASSUME NEW r \in Refunds, ReadPayment(r) \/ RefundStep(r) PROVE LedgerInv'
  <2>1. Captured
    BY <1>3 DEF ReadPayment, RefundStep, SumRefunds, InsertRefund, CallRefund, RecordRefund,
                FailRefund, LedgerInv, Backed
  <2>2. posted' = posted /\ status' = status /\ provider' = provider /\ accepted \subseteq accepted'
    BY <1>3 DEF ReadPayment, RefundStep, SumRefunds, InsertRefund, CallRefund, RecordRefund,
                FailRefund, tables, processor
  <2> QED
    BY <2>1, <2>2, LedgerFrame
<1>4. CASE ServiceDies
  <2>1. \A r \in Refunds : pc'[r] # "start" => pc[r] # "start"
    BY <1>4 DEF ServiceDies, TypeOK
  <2> QED
    BY <1>4, <2>1, LedgerFrame DEF ServiceDies, tables, LedgerInv, Backed
<1>5. ASSUME NEW h \in Hooks, Deliver(h) \/ Claim(h) \/ ProcessFails(h) \/ WorkerDies(h)
      PROVE  LedgerInv'
  BY <1>0, <1>5 DEF Deliver, Claim, ProcessFails, WorkerDies, tables, processor, requests
<1>6. ASSUME NEW h \in Hooks, Process(h) PROVE LedgerInv'
  <2>1. accepted' = accepted /\ provider' = provider /\ pc' = pc
    BY <1>6 DEF Process, processor, requests
  <2>2. CASE h = "settled" /\ provider = "succeeded" /\ PaymentSucceeded
    <3>1. CASE AlreadySucceeded
      BY <1>0, <2>1, <2>2, <3>1 DEF PaymentSucceeded
    <3>2. CASE ~AlreadySucceeded
      <4>1. posted' = [posted EXCEPT !["capture"] = IF posted["capture"] = 0 THEN 1 ELSE posted["capture"]]
        BY <2>2, <3>2 DEF PaymentSucceeded, Post
      <4>2. posted'["capture"] > 0 /\ posted'["capture"] <= 1
        BY <4>1 DEF TypeOK, Entries, LedgerInv, LedgerTellsTruth
      <4>3. \A r \in Refunds : posted'[r] = posted[r]
        BY <4>1, NamesAssumption DEF TypeOK, Entries
      <4> QED
        BY <2>1, <2>2, <4>2, <4>3
        DEF LedgerInv, Backed, LedgerTellsTruth, Captured, PostedRefunds, Posted, Entries
    <3> QED
      BY <3>1, <3>2
  <2>3. CASE PaymentFailed \/ PaymentProcessing
    BY <1>0, <2>1, <2>3 DEF PaymentFailed, PaymentProcessing, Refundable
  <2>4. CASE h \in Refunds /\ RefundSucceeded(h)
    <3>1. h \in accepted /\ Captured
      BY <1>6, <2>4 DEF Process, Hooked, LedgerInv, Backed
    <3>2. CASE refund[h] # "pending"
      BY <1>0, <2>1, <2>4, <3>2 DEF RefundSucceeded
    <3>3. CASE refund[h] = "pending"
      <4>1. posted' = [posted EXCEPT ![h] = IF posted[h] = 0 THEN 1 ELSE posted[h]]
        BY <2>4, <3>3 DEF RefundSucceeded, Post
      <4>2. posted'[h] <= 1 /\ \A e \in Entries : e # h => posted'[e] = posted[e]
        <5>1. posted \in [Entries -> Nat] /\ h \in Entries /\ posted[h] <= 1
          BY <2>4 DEF TypeOK, Entries, LedgerInv, LedgerTellsTruth
        <5> HIDE DEF Entries
        <5> QED
          BY <4>1, <5>1
      <4>3. posted'["capture"] = posted["capture"]
        BY <2>4, <4>2, NamesAssumption DEF Entries
      <4> QED
        BY <2>1, <2>4, <3>1, <4>2, <4>3
        DEF LedgerInv, Backed, LedgerTellsTruth, Captured, PostedRefunds, Posted, Entries
    <3> QED
      BY <3>2, <3>3
  <2> QED
    BY <1>6, <2>2, <2>3, <2>4 DEF Process, Apply, Hooks
<1> QED
  BY <1>1, <1>2, <1>3, <1>4, <1>5, <1>6 DEF Next, WebhookStep

-----------------------------------------------------------------------------
LEMMA PayInit == Init => PayInv
<1> SUFFICES ASSUME Init PROVE PayInv
  OBVIOUS
<1>1. TypeOK
  <2>1. [outcome |-> outcome, mode |-> mode, hash |-> hash, size |-> size] \in Cases
    <3>1. PICK case \in Cases : /\ outcome = case.outcome /\ mode = case.mode
                                /\ hash = case.hash /\ size = case.size
      BY DEF Init
    <3>2. case \in [outcome : {"succeeded", "failed", "timeout"}, mode : {"standard", "stale"},
                    hash : [Calls -> {1, 2}], size : [Refunds -> 1 .. Amount]]
      BY CasesAssumption
    <3>3. case = [outcome |-> case.outcome, mode |-> case.mode, hash |-> case.hash, size |-> case.size]
      BY <3>2
    <3> QED
      BY <3>1, <3>3
  <2>2. tries \in [Hooks -> 0 .. MaxTries] /\ posted \in [Entries -> Nat] /\ faults \in 0 .. MaxFaults
    BY Bounds DEF Init
  <2> QED
    BY <2>1, <2>2 DEF Init, TypeOK
<1>2. Hooked /\ OneCaller
  BY DEF Init, Hooked, OneCaller, Hooks
<1>3. \A e \in Entries : posted[e] = 0
  BY DEF Init
<1>4. Backed /\ LedgerTellsTruth
  BY <1>3 DEF Init, Backed, LedgerTellsTruth, Captured, PostedRefunds, Posted, Refundable, Entries
<1> QED
  BY <1>1, <1>2, <1>4 DEF PayInv

LEMMA PayInductive == Spec => []PayInv
<1>1. PayInv /\ [Next]_vars => PayInv'
  BY TypeStep, HookedStep, OneCallerStep, LedgerStep DEF PayInv, LedgerInv
<1> QED
  BY <1>1, PayInit, PTL DEF Spec

(* Every variable keeps its type; in particular webhook-worker never tries  *)
(* an event more often than MaxTries (main.ts).                             *)
THEOREM PaymentTypeCorrect == Spec => []TypeOK
<1>1. PayInv => TypeOK
  BY DEF PayInv
<1> QED
  BY <1>1, PayInductive, PTL

(* However often events are applied, and whatever requests, worker and      *)
(* processor go through, the ledger has at most one entry per capture and   *)
(* refund (postJournal), a capture only if the processor has settled the    *)
(* payment, and a refund only if it took it and upon the capture.           *)
THEOREM LedgerAlwaysTellsTruth == Spec => []LedgerTellsTruth
<1>1. PayInv => LedgerTellsTruth
  BY DEF PayInv
<1> QED
  BY <1>1, PayInductive, PTL

-----------------------------------------------------------------------------
(* The ledger as a record.                                                  *)
Recorded == [Ledger!Next]_(Ledger!vars)
Outcome == IF provider \in {"succeeded", "failed"} THEN provider ELSE "open"

(* A step that settles, takes and enters nothing.                           *)
LEMMA NothingRecorded ==
  ASSUME Outcome' = Outcome, accepted' = accepted, posted' = posted
  PROVE  Recorded
BY DEF Recorded, Ledger!vars, Outcome

(* The postings of an event: none, or one entry that had none.              *)
LEMMA EntryRecorded ==
  ASSUME TypeOK, NEW e \in Entries, Post(e)
  PROVE  posted' = posted \/ (posted[e] = 0 /\ posted' = [posted EXCEPT ![e] = 1])
<1>1. CASE posted[e] = 0
  BY <1>1 DEF Post
<1>2. CASE posted[e] # 0
  BY <1>2 DEF Post, TypeOK
<1> QED
  BY <1>1, <1>2

LEMMA RecordStep == PayInv /\ [Next]_vars => Recorded
<1> SUFFICES ASSUME PayInv, [Next]_vars PROVE Recorded
  OBVIOUS
<1> USE DEF PayInv
<1>1. ASSUME NEW c \in Calls, Prepare(c) \/ Repeat(c) \/ CreateStep(c) PROVE Recorded
  <2>1. posted' = posted /\ accepted' = accepted
    BY <1>1 DEF Prepare, Repeat, CreateStep, CallProcessor, Submit, FailPayment, tables, processor
  <2>2. provider' = provider \/ (provider = "none" /\ provider' = "processing")
    BY <1>1 DEF Prepare, Repeat, CreateStep, CallProcessor, Submit, FailPayment, processor, OneCaller
  <2>3. Outcome' = Outcome
    BY <2>2 DEF Outcome
  <2> QED
    BY <2>1, <2>3, NothingRecorded
<1>2. CASE Settle
  <2>1. Outcome = "open" /\ Outcome' \in {"succeeded", "failed"} /\ UNCHANGED <<accepted, posted>>
    BY <1>2 DEF Settle, Outcome, tables
  <2>2. Ledger!Settle
    BY <2>1 DEF Ledger!Settle, Outcome
  <2> QED
    BY <2>2 DEF Recorded, Ledger!Next
<1>3. ASSUME NEW r \in Refunds, CallRefund(r) PROVE Recorded
  <2>1. posted' = posted /\ provider' = provider /\ accepted' \in {accepted, accepted \cup {r}}
    BY <1>3 DEF CallRefund, tables
  <2>2. posted["capture"] = 1
    <3>1. posted["capture"] \in Nat /\ posted["capture"] <= 1
      BY DEF TypeOK, LedgerTellsTruth, Entries
    <3>2. posted["capture"] > 0
      BY <1>3 DEF CallRefund, Backed, Captured
    <3> QED
      BY <3>1, <3>2
  <2>3. CASE accepted' = accepted
    BY <2>1, <2>3, NothingRecorded DEF Outcome
  <2>4. CASE accepted' # accepted
    <3>1. Ledger!Take(r)
      BY <2>1, <2>2, <2>4 DEF Ledger!Take
    <3> QED
      BY <3>1 DEF Recorded, Ledger!Next
  <2> QED
    BY <2>3, <2>4
<1>4. ASSUME NEW r \in Refunds, ReadPayment(r) \/ SumRefunds(r) \/ InsertRefund(r) \/ RecordRefund(r) \/ FailRefund(r)
      PROVE  Recorded
  <2>1. UNCHANGED <<posted, provider, accepted>>
    BY <1>4 DEF ReadPayment, SumRefunds, InsertRefund, RecordRefund, FailRefund, tables, processor
  <2> QED
    BY <2>1, NothingRecorded DEF Outcome
<1>5. ASSUME NEW h \in Hooks,
             Deliver(h) \/ Claim(h) \/ ProcessFails(h) \/ WorkerDies(h)
      PROVE  Recorded
  <2>1. UNCHANGED <<posted, provider, accepted>>
    BY <1>5 DEF Deliver, Claim, ProcessFails, WorkerDies, tables, processor
  <2> QED
    BY <2>1, NothingRecorded DEF Outcome
<1>6. CASE ServiceDies \/ UNCHANGED vars
  <2>1. UNCHANGED <<posted, provider, accepted>>
    BY <1>6 DEF ServiceDies, tables, vars, processor
  <2> QED
    BY <2>1, NothingRecorded DEF Outcome
<1>7. ASSUME NEW h \in Hooks, Process(h) PROVE Recorded
  <2>1. accepted' = accepted /\ Outcome' = Outcome
    BY <1>7 DEF Process, processor, Outcome
  <2>2. CASE posted' = posted
    BY <2>1, <2>2, NothingRecorded
  <2>3. CASE h = "settled" /\ provider = "succeeded" /\ Post("capture")
    <3>1. posted' = posted \/ (posted["capture"] = 0 /\ posted' = [posted EXCEPT !["capture"] = 1])
      <4>1. "capture" \in Entries
        BY DEF Entries
      <4> QED
        BY <2>3, <4>1, EntryRecorded
    <3>2. ASSUME posted["capture"] = 0, posted' = [posted EXCEPT !["capture"] = 1]
          PROVE  Recorded
      <4>1. Ledger!Capture
        BY <2>1, <2>3, <3>2 DEF Ledger!Capture, Ledger!Enter, Outcome
      <4> QED
        BY <4>1 DEF Recorded, Ledger!Next
    <3> QED
      BY <2>2, <3>1, <3>2
  <2>4. CASE h \in Refunds /\ Post(h)
    <3>1. posted' = posted \/ (posted[h] = 0 /\ posted' = [posted EXCEPT ![h] = 1])
      <4>1. h \in Entries
        BY <2>4 DEF Entries
      <4> QED
        BY <2>4, <4>1, EntryRecorded
    <3>2. h \in accepted
      BY <1>7, <2>4 DEF Process, Hooked
    <3>3. ASSUME posted[h] = 0, posted' = [posted EXCEPT ![h] = 1] PROVE Recorded
      <4>1. Ledger!GiveBack(h)
        BY <2>1, <3>2, <3>3 DEF Ledger!GiveBack, Ledger!Enter, Outcome
      <4> QED
        BY <2>4, <4>1 DEF Recorded, Ledger!Next
    <3> QED
      BY <2>2, <3>1, <3>3
  <2>5. \/ posted' = posted
        \/ h = "settled" /\ provider = "succeeded" /\ Post("capture")
        \/ h \in Refunds /\ Post(h)
    BY <1>7 DEF Process, Apply, Hooks, PaymentSucceeded, PaymentFailed, PaymentProcessing, RefundSucceeded
  <2> QED
    BY <2>2, <2>3, <2>4, <2>5
<1> QED
  BY <1>1, <1>2, <1>3, <1>4, <1>5, <1>6, <1>7 DEF Next, RefundStep, WebhookStep

(* Whatever is repeated, overlaps or dies, the ledger only grows, entry by  *)
(* entry, each after what it is about: the processor settles once, and takes*)
(* a refund only of a payment whose capture is in the ledger.               *)
THEOREM LedgerStaysRecord == Spec => LedgerIsRecord
<1>1. Init => Ledger!Init
  BY DEF Init, Ledger!Init, Entries
<1>2. PayInv /\ [Next]_vars => [Ledger!Next]_(Ledger!vars)
  BY RecordStep DEF Recorded
<1> QED
  BY <1>1, <1>2, PayInductive, PTL DEF Spec, LedgerIsRecord, Ledger!Spec

-----------------------------------------------------------------------------
(* Answers.  Without faults one call is between the first transaction and   *)
(* its answer, and it alone decides what the key says.                      *)
Deciding(c) == pc[c] \in {"prepared", "accepted", "refused"}

Keyed ==
  faults = 0 =>
    /\ \A c \in Calls : Deciding(c) => key = "reserved" /\ keyHash = hash[c]
    /\ \A c, d \in Calls : Deciding(c) /\ Deciding(d) => c = d
    /\ \A c \in Calls : /\ answer[c] # "500"
                        /\ answer[c] \in {"202", "502"} => answer[c] = key /\ keyHash = hash[c]

(* Steps of no call.                                                        *)
LEMMA KeyedFrame ==
  ASSUME Keyed, faults' = 0 => faults = 0, UNCHANGED <<key, keyHash, hash, answer>>,
         \A c \in Calls : pc'[c] = pc[c] \/ (faults' = 0 => ~Deciding(c)')
  PROVE  Keyed'
BY DEF Keyed, Deciding

LEMMA FaultsStay == TypeOK /\ [Next]_vars => (faults' = 0 => faults = 0)
<1> SUFFICES ASSUME TypeOK, [Next]_vars, faults' = 0 PROVE faults = 0
  OBVIOUS
<1>1. faults \in Nat
  BY Bounds DEF TypeOK
<1> QED
  BY <1>1
  DEF Next, Prepare, Repeat, CreateStep, CallProcessor, Submit, FailPayment, ReadPayment,
      RefundStep, SumRefunds, InsertRefund, CallRefund, RecordRefund, FailRefund, WebhookStep,
      Deliver, Claim, Process, ProcessFails, WorkerDies, GiveBack, Settle, ServiceDies,
      NoFault, Fault, FatalFault, vars

LEMMA KeyedStep == PayInv /\ Keyed /\ [Next]_vars => Keyed'
<1> SUFFICES ASSUME PayInv, Keyed, [Next]_vars PROVE Keyed'
  OBVIOUS
<1>a. TypeOK /\ OneCaller /\ faults \in Nat
  BY Bounds DEF PayInv, TypeOK
<1>b. faults' = 0 => faults = 0
  BY <1>a, FaultsStay
<1>1. ASSUME NEW c \in Calls, Prepare(c) PROVE Keyed'
  <2> SUFFICES ASSUME faults' = 0 PROVE Keyed'
    BY DEF Keyed
  <2>1. /\ pc' = [pc EXCEPT ![c] = "prepared"] /\ answer' = answer
        /\ key = "free" /\ key' = "reserved" /\ keyHash' = hash[c] /\ hash' = hash
    BY <1>1, <1>a DEF Prepare, Goto, FatalFault, choice
  <2>2. \A d \in Calls : d # c => pc'[d] = "start"
    BY <2>1, <1>a DEF OneCaller, TypeOK
  <2>3. \A d \in Calls : answer[d] \notin {"202", "502", "500"}
    BY <2>1, <1>b, <1>a DEF Keyed, TypeOK
  <2> QED
    BY <2>1, <2>2, <2>3 DEF Keyed, Deciding
<1>2. ASSUME NEW c \in Calls, Repeat(c) PROVE Keyed'
  <2>1. /\ pc' = [pc EXCEPT ![c] = "done"] /\ UNCHANGED <<key, keyHash, hash, faults>>
        /\ answer' = [answer EXCEPT ![c] = IF Replay(c) THEN key ELSE "409"]
    BY <1>2 DEF Repeat, Answer, Goto, choice, tables
  <2>2. Replay(c) => key \in {"202", "502"} /\ keyHash = hash[c]
    BY <1>a DEF Replay, TypeOK
  <2>3. \A d \in Calls : answer'[d] = IF d = c THEN IF Replay(c) THEN key ELSE "409" ELSE answer[d]
    BY <2>1, <1>a DEF TypeOK
  <2>4. \A d \in Calls : Deciding(d)' => Deciding(d) /\ d # c
    BY <2>1, <1>a DEF Deciding, TypeOK
  <2> QED
    BY <2>1, <2>2, <2>3, <2>4 DEF Keyed
<1>3. ASSUME NEW c \in Calls, CallProcessor(c) PROVE Keyed'
  <2>1. UNCHANGED <<key, keyHash, hash, answer>> /\ Deciding(c)
    BY <1>3 DEF CallProcessor, choice, tables, Deciding
  <2>2. \A d \in Calls : Deciding(d)' => Deciding(d)
    BY <1>3, <1>a, <2>1 DEF CallProcessor, Goto, Deciding, TypeOK
  <2> QED
    BY <1>b, <2>1, <2>2 DEF Keyed
<1>4. ASSUME NEW c \in Calls, Submit(c) \/ FailPayment(c) PROVE Keyed'
  <2> SUFFICES ASSUME faults' = 0 PROVE Keyed'
    BY DEF Keyed
  <2>1. /\ pc' = [pc EXCEPT ![c] = "done"] /\ key' \in {"202", "502"}
        /\ answer' = [answer EXCEPT ![c] = key'] /\ UNCHANGED <<keyHash, hash>> /\ Deciding(c)
    BY <1>4, <1>a DEF Submit, FailPayment, Answer, Goto, Fault, FatalFault, choice, Deciding
  <2>2. keyHash = hash[c] /\ \A d \in Calls : Deciding(d) => d = c
    BY <1>b, <2>1 DEF Keyed
  <2>3. \A d \in Calls : ~Deciding(d)'
    BY <2>1, <2>2, <1>a DEF Deciding, TypeOK
  <2>4. \A d \in Calls : answer[d] \notin {"202", "502", "500"}
    BY <1>b, <2>1 DEF Keyed
  <2>5. \A d \in Calls : answer'[d] = IF d = c THEN key' ELSE answer[d]
    BY <2>1, <1>a DEF TypeOK
  <2> QED
    BY <2>1, <2>2, <2>3, <2>4, <2>5 DEF Keyed
<1>5. ASSUME NEW r \in Refunds, ReadPayment(r) \/ RefundStep(r) PROVE Keyed'
  <2>1. UNCHANGED <<key, keyHash, hash, answer>>
    BY <1>5 DEF ReadPayment, RefundStep, SumRefunds, InsertRefund, CallRefund, RecordRefund,
                FailRefund, tables, choice
  <2>2. \A c \in Calls : pc'[c] = pc[c]
    <3>1. \A c \in Calls : c # r
      BY NamesAssumption
    <3> QED
      BY <1>5, <1>a, <3>1 DEF ReadPayment, RefundStep, SumRefunds, InsertRefund, CallRefund,
                              RecordRefund, FailRefund, Goto, TypeOK
  <2> QED
    BY <1>b, <2>1, <2>2, KeyedFrame
<1>6. ASSUME NEW h \in Hooks, WebhookStep(h) \/ ProcessFails(h) \/ WorkerDies(h) PROVE Keyed'
  <2>1. UNCHANGED <<key, keyHash, hash, answer, pc>>
    BY <1>6 DEF WebhookStep, Deliver, Claim, Process, ProcessFails, WorkerDies,
                tables, choice, requests
  <2> QED
    BY <1>b, <2>1, KeyedFrame
<1>7. CASE Settle \/ UNCHANGED vars
  BY <1>b, <1>7, KeyedFrame DEF Settle, vars, tables, choice, requests
<1>8. CASE ServiceDies
  BY <1>8, <1>a DEF ServiceDies, FatalFault, Keyed
<1> QED
  BY <1>1, <1>2, <1>3, <1>4, <1>5, <1>6, <1>7, <1>8 DEF Next, CreateStep

(* reserveIdempotency: without faults, calls with one key are answered      *)
(* alike if they ask for the same, and no other call gets that answer,      *)
(* however many overlap.                                                    *)
THEOREM AnswersAlwaysAgree == Spec => []AnswersAgree
<1>1. Init => Keyed
  BY DEF Init, Keyed, Deciding
<1>2. PayInv /\ Keyed /\ [Next]_vars => Keyed'
  BY KeyedStep
<1>3. TypeOK /\ Keyed => AnswersAgree
  <2> SUFFICES ASSUME TypeOK, Keyed, NEW c \in Calls, NEW d \in Calls, faults = 0,
                      answer[c] \in {"202", "502"}, answer[d] \notin {"none", "409"}
               PROVE  answer[c] = answer[d] /\ hash[c] = hash[d]
    BY DEF AnswersAgree
  <2>1. answer[d] \in {"202", "502"}
    BY DEF TypeOK, Keyed
  <2> QED
    BY <2>1 DEF Keyed
<1>4. PayInv => TypeOK
  BY DEF PayInv
<1> QED
  BY <1>1, <1>2, <1>3, <1>4, PayInductive, PTL DEF Spec

-----------------------------------------------------------------------------
(* Receipts.  A capture is the work of an event that without faults was the *)
(* last one to be applied, and its status is taken away by a refund or by a *)
(* call that is then answered.                                              *)
Moved == PostedRefunds # {} \/ \E c \in Calls : answer[c] \in {"500", "502"}

Told ==
  /\ \A c \in Calls : answer[c] # "none" => pc[c] = "done"
  /\ Captured => status = "succeeded" \/ Moved
  /\ faults = 0 /\ Captured => hook["settled"] = "processed"
  /\ ~Captured => receipts = 0
  /\ Captured => provider = "succeeded"

ReceiptInv == Told /\ SecondReceiptExplained

(* Steps that apply no event.                                               *)
LEMMA ReceiptFrame ==
  ASSUME ReceiptInv, faults' = 0 => faults = 0 /\ hook'["settled"] = hook["settled"],
         faults > 0 => faults' > 0,
         UNCHANGED <<posted, receipts>>, provider = "succeeded" => provider' = "succeeded",
         Moved => Moved', status' = status \/ Moved' \/ ~Captured,
         \A c \in Calls : answer'[c] # "none" => pc'[c] = "done"
  PROVE  ReceiptInv'
BY DEF ReceiptInv, Told, SecondReceiptExplained, Captured, Moved, PostedRefunds, Posted

LEMMA ReceiptStep == PayInv /\ ReceiptInv /\ [Next]_vars => ReceiptInv'
<1> SUFFICES ASSUME PayInv, ReceiptInv, [Next]_vars PROVE ReceiptInv'
  OBVIOUS
<1>a. TypeOK /\ Hooked /\ OneCaller /\ Backed /\ LedgerTellsTruth /\ faults \in Nat /\ faults' \in Nat
  <2>1. TypeOK /\ TypeOK'
    BY TypeStep DEF PayInv
  <2> QED
    BY <2>1, Bounds DEF PayInv, TypeOK
<1>b. faults' = 0 => faults = 0
  BY <1>a, FaultsStay
<1>c. faults > 0 => faults' > 0
  BY <1>a, <1>b
<1>d. ~Captured => receipts = 0 /\ posted["capture"] = 0
  BY <1>a DEF ReceiptInv, Told, Captured, TypeOK, Entries
<1>1. ASSUME NEW c \in Calls, Prepare(c) \/ Repeat(c) \/ CreateStep(c) PROVE ReceiptInv'
  <2>1. UNCHANGED <<posted, receipts, hook>>
    BY <1>1 DEF Prepare, Repeat, CreateStep, CallProcessor, Submit, FailPayment, tables, hooks
  <2>2. provider = "succeeded" => provider' = "succeeded"
    BY <1>1, <1>a DEF Prepare, Repeat, CreateStep, CallProcessor, Submit, FailPayment,
                      processor, OneCaller
  <2>3. pc[c] # "done" /\ answer[c] = "none"
    BY <1>1 DEF Prepare, Repeat, CreateStep, CallProcessor, Submit, FailPayment, ReceiptInv, Told
  <2>4. \/ pc' = [pc EXCEPT ![c] = "done"] /\ \E a \in {"202", "409", "500", "502"} :
               answer' = [answer EXCEPT ![c] = a]
        \/ answer' = answer /\ \E s \in {"prepared", "accepted", "refused"} :
               pc' = [pc EXCEPT ![c] = s]
    BY <1>1, <1>a DEF Prepare, Repeat, Replay, CreateStep, CallProcessor, Submit, FailPayment,
                      Goto, Answer, TypeOK
  <2>5. \A d \in Calls : answer'[d] # "none" => pc'[d] = "done"
    BY <2>3, <2>4, <1>a DEF ReceiptInv, Told, TypeOK
  <2>6. \A d \in Calls : d # c => answer'[d] = answer[d]
    BY <2>4, <1>a DEF TypeOK
  <2>7. Moved => Moved'
    BY <2>1, <2>3, <2>6 DEF Moved, PostedRefunds, Posted
  <2>8. status' = status \/ Moved' \/ ~Captured
    <3>1. CASE Prepare(c)
      <4>1. provider = "none"
        BY <3>1, <1>a DEF Prepare, OneCaller
      <4> QED
        BY <4>1 DEF ReceiptInv, Told
    <3>2. CASE Repeat(c) \/ CallProcessor(c) \/ Submit(c)
      BY <3>2 DEF Repeat, CallProcessor, Submit, tables
    <3>3. CASE FailPayment(c)
      <4>1. answer'[c] \in {"500", "502"}
        BY <3>3, <1>a DEF FailPayment, Answer, TypeOK
      <4> QED
        BY <4>1 DEF Moved
    <3> QED
      BY <1>1, <3>1, <3>2, <3>3 DEF CreateStep
  <2> QED
    BY <1>b, <1>c, <2>1, <2>2, <2>5, <2>7, <2>8, ReceiptFrame
<1>2. ASSUME NEW r \in Refunds, ReadPayment(r) \/ RefundStep(r) PROVE ReceiptInv'
  <2>1. UNCHANGED <<posted, receipts, hook, provider, status, answer>>
    BY <1>2 DEF ReadPayment, RefundStep, SumRefunds, InsertRefund, CallRefund, RecordRefund,
                FailRefund, tables, hooks, processor
  <2>2. \A c \in Calls : pc'[c] = pc[c]
    <3>1. \A c \in Calls : c # r
      BY NamesAssumption
    <3> QED
      BY <1>2, <1>a, <3>1 DEF ReadPayment, RefundStep, SumRefunds, InsertRefund, CallRefund,
                              RecordRefund, FailRefund, Goto, TypeOK
  <2> QED
    BY <1>b, <1>c, <2>1, <2>2, ReceiptFrame DEF ReceiptInv, Told, Moved, PostedRefunds, Posted
<1>3. ASSUME NEW h \in Hooks, Deliver(h) \/ Claim(h) \/ ProcessFails(h) \/ WorkerDies(h)
      PROVE  ReceiptInv'
  <2>1. UNCHANGED <<posted, receipts, provider, status, answer, pc>>
    BY <1>3 DEF Deliver, Claim, ProcessFails, WorkerDies, tables, processor, requests
  <2>2. faults' = 0 /\ Captured => hook'["settled"] = "processed"
    <3> SUFFICES ASSUME faults' = 0, Captured PROVE hook'["settled"] = "processed"
      OBVIOUS
    <3>1. hook["settled"] = "processed"
      BY <1>b DEF ReceiptInv, Told
    <3>2. hook[h] # "processed"
      BY <1>3 DEF Deliver, Claim, Claimable, ProcessFails, WorkerDies
    <3>3. \E s \in {"pending", "lost", "processing", "retry", "dead", "abandoned"} :
            hook' = [hook EXCEPT ![h] = s]
      BY <1>3 DEF Deliver, Claim, ProcessFails, WorkerDies, GiveBack
    <3>4. hook'["settled"] = hook["settled"]
      BY <3>1, <3>2, <3>3, <1>a DEF TypeOK, Hooks
    <3> QED
      BY <3>1, <3>4
  <2> QED
    BY <1>b, <1>c, <2>1, <2>2
    DEF ReceiptInv, Told, SecondReceiptExplained, Captured, Moved, PostedRefunds, Posted
<1>4. ASSUME NEW h \in Hooks, Process(h) PROVE ReceiptInv'
  <2>1. UNCHANGED <<provider, answer, pc>>
    BY <1>4 DEF Process, processor, requests
  <2>2. faults' = 0 => hook' = [hook EXCEPT ![h] = "processed"]
    BY <1>4, <1>a DEF Process, GiveBack, Fault, FatalFault
  <2>3. faults' = 0 /\ hook["settled"] = "processed" => hook'["settled"] = "processed"
    <3>1. "settled" \in DOMAIN hook
      BY <1>a DEF TypeOK, Hooks
    <3> QED
      BY <2>2, <3>1
  <2>4. CASE h = "settled" /\ provider = "succeeded" /\ PaymentSucceeded
    <3>1. CASE AlreadySucceeded
      <4>1. UNCHANGED <<posted, receipts, status>>
        BY <2>4, <3>1 DEF PaymentSucceeded
      <4> QED
        BY <1>b, <1>c, <2>1, <2>3, <4>1
        DEF ReceiptInv, Told, SecondReceiptExplained, Captured, Moved, PostedRefunds, Posted
    <3>2. CASE ~AlreadySucceeded
      <4>1. /\ posted' = [posted EXCEPT !["capture"] = IF posted["capture"] = 0 THEN 1
                                                       ELSE posted["capture"]]
            /\ receipts' = receipts + 1 /\ status' = "succeeded" /\ status # "succeeded"
        BY <2>4, <3>2 DEF PaymentSucceeded, Post, AlreadySucceeded
      <4>2. /\ posted'["capture"] = IF posted["capture"] = 0 THEN 1 ELSE posted["capture"]
            /\ \A r \in Refunds : posted'[r] = posted[r]
        BY <4>1, <1>a, NamesAssumption DEF TypeOK, Entries
      <4>3. posted["capture"] \in Nat
        BY <1>a DEF TypeOK, Entries
      <4>4. Captured' /\ (Moved' <=> Moved)
        BY <2>1, <4>2, <4>3 DEF Captured, Moved, PostedRefunds, Posted
      <4>5. faults' = 0 => hook'["settled"] = "processed"
        BY <2>2, <2>4, <1>a DEF TypeOK, Hooks
      <4>6. Captured => faults > 0 /\ Moved
        BY <1>4, <1>a, <2>4, <4>1 DEF ReceiptInv, Told, Process
      <4>7. SecondReceiptExplained'
        BY <1>c, <1>d, <4>1, <4>2, <4>4, <4>6 DEF SecondReceiptExplained, Moved
      <4> QED
        BY <2>1, <2>4, <4>1, <4>4, <4>5, <4>7 DEF ReceiptInv, Told
    <3> QED
      BY <3>1, <3>2
  <2>5. CASE PaymentFailed \/ PaymentProcessing
    <3>1. UNCHANGED <<posted, receipts>> /\ (status' = status \/ status = "processing")
      BY <2>5 DEF PaymentFailed, PaymentProcessing
    <3> QED
      BY <1>b, <1>c, <2>1, <2>3, <3>1
      DEF ReceiptInv, Told, SecondReceiptExplained, Captured, Moved, PostedRefunds, Posted
  <2>6. CASE h \in Refunds /\ RefundSucceeded(h)
    <3>1. CASE refund[h] # "pending"
      <4>1. UNCHANGED <<posted, receipts, status>>
        BY <2>6, <3>1 DEF RefundSucceeded
      <4> QED
        BY <1>b, <1>c, <2>1, <2>3, <4>1
        DEF ReceiptInv, Told, SecondReceiptExplained, Captured, Moved, PostedRefunds, Posted
    <3>2. CASE refund[h] = "pending"
      <4>1. /\ posted' = [posted EXCEPT ![h] = IF posted[h] = 0 THEN 1 ELSE posted[h]]
            /\ receipts' = receipts
        BY <2>6, <3>2 DEF RefundSucceeded, Post
      <4>2. posted'["capture"] = posted["capture"] /\ posted'[h] > 0
        <5>1. posted \in [Entries -> Nat] /\ h \in Entries /\ "capture" \in Entries /\ h # "capture"
          BY <1>a, <2>6, NamesAssumption DEF TypeOK, Entries
        <5> HIDE DEF Entries
        <5> QED
          BY <4>1, <5>1
      <4>3. Moved' /\ (Captured' <=> Captured)
        BY <2>6, <4>2 DEF Moved, PostedRefunds, Posted, Captured
      <4> QED
        BY <1>b, <1>c, <2>1, <2>3, <4>1, <4>2, <4>3
        DEF ReceiptInv, Told, SecondReceiptExplained, Moved
    <3> QED
      BY <3>1, <3>2
  <2> QED
    BY <1>4, <2>4, <2>5, <2>6 DEF Process, Apply, Hooks
<1>5. CASE Settle \/ UNCHANGED vars
  <2>1. UNCHANGED <<posted, receipts, hook, status, answer, pc>>
    BY <1>5 DEF Settle, vars, tables, hooks, requests
  <2>2. provider = "succeeded" => provider' = "succeeded"
    BY <1>5 DEF Settle, vars, processor
  <2> QED
    BY <1>b, <1>c, <2>1, <2>2, ReceiptFrame DEF ReceiptInv, Told, Moved, PostedRefunds, Posted
<1>6. CASE ServiceDies
  <2>1. UNCHANGED <<posted, receipts, hook, status, provider>>
    BY <1>6 DEF ServiceDies, tables, hooks
  <2>2. \A c \in Calls : /\ pc'[c] = IF pc[c] = "start" THEN "start" ELSE "done"
                         /\ answer'[c] = IF pc[c] \in {"start", "done"} THEN answer[c] ELSE "500"
    BY <1>6, <1>a DEF ServiceDies, TypeOK
  <2>3. \A c \in Calls : answer[c] # "none" => answer'[c] = answer[c]
    BY <2>2 DEF ReceiptInv, Told
  <2>4. \A c \in Calls : answer'[c] # "none" => pc'[c] = "done"
    BY <2>2 DEF ReceiptInv, Told
  <2>5. Moved => Moved'
    BY <2>1, <2>3 DEF Moved, PostedRefunds, Posted
  <2> QED
    BY <1>b, <1>c, <2>1, <2>4, <2>5, ReceiptFrame
<1> QED
  BY <1>1, <1>2, <1>3, <1>4, <1>5, <1>6 DEF Next, WebhookStep

LEMMA ReceiptInductive == Spec => []ReceiptInv
<1>1. Init => ReceiptInv
  BY DEF Init, ReceiptInv, Told, SecondReceiptExplained, Captured, Entries
<1> QED
  BY <1>1, ReceiptStep, PayInductive, PTL DEF Spec

(* processor.ts: a second receipt job is the doing of a payment.succeeded   *)
(* that was applied again after a fault, and only when a refund or the      *)
(* catch of create had taken the status away from "succeeded".              *)
THEOREM ReceiptsAreExplained == Spec => []SecondReceiptExplained
<1>1. ReceiptInv => SecondReceiptExplained
  BY DEF ReceiptInv
<1> QED
  BY <1>1, ReceiptInductive, PTL

-----------------------------------------------------------------------------
(* Refunds.  Those that count are pending or succeeded.  A request that may *)
(* insert its refund has room for it next to those it counted, and whatever *)
(* sums saw each other, of any two refunds the later sum the earlier row,   *)
(* stay within the amount together.                                         *)
Apart(S) == \A q, r \in S : q # r => q \in before[r] \/ r \in before[q]

Rows ==
  \A r \in Refunds :
    /\ pc[r] \in {"start", "read", "summed"} => refund[r] = "none"
    /\ before[r] \subseteq {q \in Refunds : refund[q] # "none"}
    /\ r \in accepted => pc[r] \notin {"start", "read", "summed", "inserted"}
Room == \A r \in Refunds : pc[r] = "summed" => SumOf(before[r] \cap Counted) + size[r] <= Amount
Fits == \A S \in SUBSET Counted : Apart(S) => SumOf(S) <= Amount

RefundInv == Rows /\ Room /\ Fits

LEMMA SizeType == TypeOK => Sizes
<1> SUFFICES ASSUME TypeOK PROVE Sizes
  OBVIOUS
<1> DEFINE case == [outcome |-> outcome, mode |-> mode, hash |-> hash, size |-> size]
<1>1. case.size \in [Refunds -> 1 .. Amount]
  BY CasesAssumption DEF TypeOK
<1> QED
  BY <1>1 DEF Sizes

LEMMA SizeNat == Sizes => Amount \in Nat /\ \A r \in Refunds : size[r] \in Nat /\ size[r] > 0
BY CasesAssumption DEF Sizes

(* Steps that let no further refund count.                                  *)
LEMMA RefundFrame ==
  ASSUME TypeOK, RefundInv, size' = size, before' = before, accepted' = accepted,
         Counted' \subseteq Counted,
         \A r \in Refunds : refund'[r] = refund[r] \/
                            (refund'[r] # "none" /\ pc'[r] \notin {"start", "read", "summed"}),
         \A r \in Refunds : pc'[r] = pc[r] \/ (pc'[r] = "read" /\ pc[r] = "start") \/
                            pc'[r] \notin {"start", "read", "summed", "inserted"}
  PROVE  RefundInv'
<1>a. Sizes
  BY SizeType
<1>1. Rows'
  BY DEF RefundInv, Rows
<1>2. Room'
  <2> SUFFICES ASSUME NEW r \in Refunds, pc'[r] = "summed"
               PROVE  SumOf(before[r] \cap Counted') + size[r] <= Amount
    BY SumFrame DEF Room
  <2>1. SumOf(before[r] \cap Counted) + size[r] <= Amount
    BY DEF RefundInv, Room
  <2>2. before[r] \cap Counted \in SUBSET Refunds
    BY DEF Counted
  <2>3. SumOf(before[r] \cap Counted') <= SumOf(before[r] \cap Counted)
    BY <1>a, <2>2, SumMonotone
  <2>4. SumOf(before[r] \cap Counted) \in Nat /\ SumOf(before[r] \cap Counted') \in Nat
    BY <1>a, <2>2, SumType
  <2> QED
    BY <1>a, <2>1, <2>3, <2>4, SizeNat
<1>3. Fits'
  <2> SUFFICES ASSUME NEW S \in SUBSET Counted', Apart(S) PROVE SumOf(S) <= Amount
    BY SumFrame DEF Fits, Apart
  <2> QED
    BY DEF RefundInv, Fits
<1> QED
  BY <1>1, <1>2, <1>3 DEF RefundInv

LEMMA RefundInvStep == TypeOK /\ RefundInv /\ [Next]_vars => RefundInv'
<1> SUFFICES ASSUME TypeOK, RefundInv, [Next]_vars PROVE RefundInv'
  OBVIOUS
<1>a. Sizes
  BY SizeType
<1>1. ASSUME NEW c \in Calls, Prepare(c) \/ Repeat(c) \/ CreateStep(c) PROVE RefundInv'
  <2>1. UNCHANGED <<size, before, accepted, refund>>
    BY <1>1 DEF Prepare, Repeat, CreateStep, CallProcessor, Submit, FailPayment, choice, tables, processor
  <2>2. \A r \in Refunds : pc'[r] = pc[r]
    <3>1. \A r \in Refunds : c # r
      BY NamesAssumption
    <3> QED
      BY <1>1, <3>1 DEF Prepare, Repeat, CreateStep, CallProcessor, Submit, FailPayment,
                        Goto, Answer, TypeOK
  <2> QED
    BY <2>1, <2>2, RefundFrame DEF Counted
<1>2. ASSUME NEW r \in Refunds, ReadPayment(r) \/ RecordRefund(r) PROVE RefundInv'
  <2>1. UNCHANGED <<size, before, accepted, refund>>
    BY <1>2 DEF ReadPayment, RecordRefund, choice, tables, processor
  <2>2. \A q \in Refunds : pc'[q] = pc[q] \/ (pc'[q] = "read" /\ pc[q] = "start") \/
                           pc'[q] \notin {"start", "read", "summed", "inserted"}
    BY <1>2 DEF ReadPayment, RecordRefund, Goto, TypeOK
  <2> QED
    BY <2>1, <2>2, RefundFrame DEF Counted
<1>3. ASSUME NEW r \in Refunds, SumRefunds(r) PROVE RefundInv'
  <2>1. UNCHANGED <<size, accepted, refund>> /\ pc[r] = "read"
    BY <1>3 DEF SumRefunds, choice, tables, processor
  <2>2. \A q \in Refunds : before'[q] = IF q = r THEN {p \in Refunds : refund[p] # "none"} ELSE before[q]
    BY <1>3 DEF SumRefunds, TypeOK
  <2>3. \A q \in Refunds : q # r => pc'[q] = pc[q]
    BY <1>3 DEF SumRefunds, Goto, TypeOK
  <2>4. pc'[r] = IF SumOf(Counted) + size[r] > Amount THEN "done" ELSE "summed"
    BY <1>3 DEF SumRefunds, Goto, TypeOK
  <2>5. Rows'
    BY <2>1, <2>2, <2>3, <2>4 DEF RefundInv, Rows
  <2>6. Room'
    <3> SUFFICES ASSUME NEW q \in Refunds, pc'[q] = "summed"
                 PROVE  SumOf(before'[q] \cap Counted) + size[q] <= Amount
      BY <2>1, SumFrame DEF Room, Counted
    <3>1. CASE q = r
      <4>1. before'[q] \cap Counted = Counted
        BY <2>2, <3>1 DEF Counted
      <4>2. ~ (SumOf(Counted) + size[r] > Amount)
        BY <2>4, <3>1
      <4>3. SumOf(Counted) \in Nat /\ size[r] \in Nat /\ Amount \in Nat
        BY <1>a, SumType, SizeNat DEF Counted
      <4>4. SumOf(Counted) + size[r] <= Amount
        BY <4>2, <4>3
      <4> QED
        BY <3>1, <4>1, <4>4
    <3>2. CASE q # r
      BY <2>2, <2>3, <3>2 DEF RefundInv, Room
    <3> QED
      BY <3>1, <3>2
  <2>7. Fits'
    <3> SUFFICES ASSUME NEW S \in SUBSET Counted, Apart(S)' PROVE SumOf(S) <= Amount
      BY <2>1, SumFrame DEF Fits, Counted
    <3>1. r \notin S
      BY <2>1 DEF RefundInv, Rows, Counted
    <3>2. Apart(S)
      BY <2>2, <3>1 DEF Apart, Counted
    <3> QED
      BY <3>2 DEF RefundInv, Fits
  <2> QED
    BY <2>5, <2>6, <2>7 DEF RefundInv
<1>4. ASSUME NEW r \in Refunds, InsertRefund(r) PROVE RefundInv'
  <2>1. /\ UNCHANGED <<size, before, accepted>> /\ pc[r] = "summed" /\ refund[r] = "none"
        /\ refund' = [refund EXCEPT ![r] = "pending"]
    BY <1>4 DEF InsertRefund, choice, processor, RefundInv, Rows
  <2>2. \A q \in Refunds : q # r => pc'[q] = pc[q]
    BY <1>4 DEF InsertRefund, Goto, TypeOK
  <2>3. pc'[r] \in {"inserted", "done"} /\ r \notin accepted
    BY <1>4 DEF InsertRefund, Goto, TypeOK, RefundInv, Rows
  <2>4. \A q \in Refunds : refund'[q] = IF q = r THEN "pending" ELSE refund[q]
    BY <2>1 DEF TypeOK
  <2>5. Counted' = Counted \cup {r} /\ r \notin Counted
    BY <2>1, <2>4 DEF Counted
  <2>6. \A q \in Refunds : r \notin before[q]
    BY <2>1 DEF RefundInv, Rows
  <2>7. Rows'
    BY <2>1, <2>2, <2>3, <2>4 DEF RefundInv, Rows
  <2>8. Room'
    <3> SUFFICES ASSUME NEW q \in Refunds, pc'[q] = "summed"
                 PROVE  SumOf(before[q] \cap Counted') + size[q] <= Amount
      BY <2>1, SumFrame DEF Room
    <3>1. before[q] \cap Counted' = before[q] \cap Counted /\ q # r
      BY <2>3, <2>5, <2>6
    <3> QED
      BY <2>2, <3>1 DEF RefundInv, Room
  <2>9. Fits'
    <3> SUFFICES ASSUME NEW S \in SUBSET Counted', Apart(S) PROVE SumOf(S) <= Amount
      BY <2>1, SumFrame DEF Fits, Apart
    <3>1. CASE r \notin S
      BY <2>5, <3>1 DEF RefundInv, Fits
    <3>2. CASE r \in S
      <4>1. \A q \in S \ {r} : q \in before[r]
        BY <2>5, <2>6, <3>2 DEF Apart, Counted
      <4>2. S \ {r} \in SUBSET (before[r] \cap Counted)
        BY <2>5, <4>1
      <4>3. S \in SUBSET Refunds /\ before[r] \cap Counted \in SUBSET Refunds /\ S \ {r} \in SUBSET Refunds
        BY DEF Counted
      <4>4. SumOf(S \ {r}) <= SumOf(before[r] \cap Counted)
        BY <1>a, <4>2, <4>3, SumMonotone
      <4>5. SumOf(before[r] \cap Counted) + size[r] <= Amount
        BY <2>1 DEF RefundInv, Room
      <4>6. SumOf(S) = size[r] + SumOf(S \ {r})
        BY <1>a, <3>2, <4>3, SumAdd
      <4>7. /\ SumOf(S \ {r}) \in Nat /\ SumOf(before[r] \cap Counted) \in Nat
            /\ size[r] \in Nat /\ Amount \in Nat
        BY <1>a, <4>3, SumType, SizeNat
      <4> QED
        BY <4>4, <4>5, <4>6, <4>7
    <3> QED
      BY <3>1, <3>2
  <2> QED
    BY <2>7, <2>8, <2>9 DEF RefundInv
<1>5. ASSUME NEW r \in Refunds, CallRefund(r) PROVE RefundInv'
  <2>1. UNCHANGED <<size, before, refund>> /\ accepted' \in {accepted, accepted \cup {r}}
    BY <1>5 DEF CallRefund, choice, tables
  <2>2. pc'[r] \in {"accepted", "refused"} /\ \A q \in Refunds : q # r => pc'[q] = pc[q]
    BY <1>5 DEF CallRefund, Goto, TypeOK
  <2>3. Rows'
    BY <2>1, <2>2 DEF RefundInv, Rows
  <2>4. Room' /\ Fits'
    BY <2>1, <2>2, SumFrame DEF RefundInv, Room, Fits, Apart, Counted
  <2> QED
    BY <2>3, <2>4 DEF RefundInv
<1>6. ASSUME NEW r \in Refunds, FailRefund(r) PROVE RefundInv'
  <2>1. UNCHANGED <<size, before, accepted>>
    BY <1>6 DEF FailRefund, choice, processor
  <2>2. /\ pc'[r] = "done" /\ \A q \in Refunds : q # r => pc'[q] = pc[q]
    BY <1>6 DEF FailRefund, Goto, TypeOK
  <2>3. refund' = refund \/ refund' = [refund EXCEPT ![r] = "failed"]
    BY <1>6 DEF FailRefund
  <2>4. \A q \in Refunds : refund'[q] = refund[q] \/ (q = r /\ refund'[q] = "failed")
    BY <2>3 DEF TypeOK
  <2>5. Counted' \subseteq Counted
    BY <2>4 DEF Counted
  <2> QED
    BY <2>1, <2>2, <2>4, <2>5, RefundFrame
<1>7. ASSUME NEW h \in Hooks, Process(h) PROVE RefundInv'
  <2>1. UNCHANGED <<size, before, accepted, pc>>
    BY <1>7 DEF Process, choice, processor, requests
  <2>2. CASE refund' = refund
    BY <2>1, <2>2, RefundFrame DEF Counted
  <2>3. CASE h \in Refunds /\ refund[h] = "pending" /\ refund' = [refund EXCEPT ![h] = "succeeded"]
    <3>1. \A q \in Refunds : refund'[q] = IF q = h THEN "succeeded" ELSE refund[q]
      BY <2>3 DEF TypeOK
    <3>2. Counted' = Counted
      BY <2>3, <3>1 DEF Counted
    <3>3. pc[h] \notin {"start", "read", "summed"}
      BY <2>3 DEF RefundInv, Rows
    <3> QED
      BY <2>1, <3>1, <3>2, <3>3, RefundFrame
  <2> QED
    BY <1>7, <2>2, <2>3 DEF Process, Apply, RefundSucceeded, Hooks
<1>8. ASSUME NEW h \in Hooks, Deliver(h) \/ Claim(h) \/ ProcessFails(h) \/ WorkerDies(h)
      PROVE  RefundInv'
  <2>1. UNCHANGED <<size, before, accepted, refund, pc>>
    BY <1>8 DEF Deliver, Claim, ProcessFails, WorkerDies, choice, tables, processor, requests
  <2> QED
    BY <2>1, RefundFrame DEF Counted
<1>9. CASE Settle \/ UNCHANGED vars
  <2>1. UNCHANGED <<size, before, accepted, refund, pc>>
    BY <1>9 DEF Settle, vars, choice, tables, processor, requests
  <2> QED
    BY <2>1, RefundFrame DEF Counted
<1>10. CASE ServiceDies
  <2>1. UNCHANGED <<size, before, accepted, refund>>
    BY <1>10 DEF ServiceDies, choice, tables
  <2>2. \A r \in Refunds : pc'[r] = pc[r] \/ pc'[r] = "done"
    BY <1>10 DEF ServiceDies, TypeOK
  <2> QED
    BY <2>1, <2>2, RefundFrame DEF Counted
<1> QED
  BY <1>1, <1>2, <1>3, <1>4, <1>5, <1>6, <1>7, <1>8, <1>9, <1>10 DEF Next, RefundStep, WebhookStep

(* Without faults a refund is posted when it has succeeded, and the catch   *)
(* of refund meets only those that the processor did not take.              *)
Exact ==
  faults = 0 =>
    \A r \in Refunds : /\ Posted(r) <=> refund[r] = "succeeded"
                       /\ pc[r] = "refused" => r \notin accepted

LEMMA ExactFrame ==
  ASSUME Exact, faults' = 0 => faults = 0, UNCHANGED <<posted, refund, accepted>>,
         faults' = 0 => \A r \in Refunds : pc'[r] = "refused" => pc[r] = "refused"
  PROVE  Exact'
BY DEF Exact, Posted

LEMMA ExactStep == PayInv /\ RefundInv /\ Exact /\ [Next]_vars => Exact'
<1> SUFFICES ASSUME PayInv, RefundInv, Exact, [Next]_vars PROVE Exact'
  OBVIOUS
<1>a. TypeOK /\ LedgerTellsTruth /\ Rows /\ faults \in Nat
  BY Bounds DEF PayInv, RefundInv, TypeOK
<1>b. faults' = 0 => faults = 0
  BY <1>a, FaultsStay
<1>1. ASSUME NEW c \in Calls, Prepare(c) \/ Repeat(c) \/ CreateStep(c) PROVE Exact'
  <2>1. UNCHANGED <<posted, refund, accepted>>
    BY <1>1 DEF Prepare, Repeat, CreateStep, CallProcessor, Submit, FailPayment, tables, processor
  <2>2. \A r \in Refunds : pc'[r] = pc[r]
    <3>1. \A r \in Refunds : c # r
      BY NamesAssumption
    <3> QED
      BY <1>1, <1>a, <3>1 DEF Prepare, Repeat, CreateStep, CallProcessor, Submit, FailPayment,
                              Goto, Answer, TypeOK
  <2> QED
    BY <1>b, <2>1, <2>2, ExactFrame
<1>2. ASSUME NEW r \in Refunds, ReadPayment(r) \/ SumRefunds(r) \/ RecordRefund(r) PROVE Exact'
  <2>1. UNCHANGED <<posted, refund, accepted>>
    BY <1>2 DEF ReadPayment, SumRefunds, RecordRefund, tables, processor
  <2>2. faults' = 0 => \A q \in Refunds : pc'[q] = "refused" => pc[q] = "refused"
    BY <1>2, <1>a DEF ReadPayment, SumRefunds, RecordRefund, Goto, Fault, TypeOK
  <2> QED
    BY <1>b, <2>1, <2>2, ExactFrame
<1>3. ASSUME NEW r \in Refunds, InsertRefund(r) PROVE Exact'
  <2>1. /\ UNCHANGED <<posted, accepted>> /\ refund[r] = "none"
        /\ refund' = [refund EXCEPT ![r] = "pending"]
    BY <1>3, <1>a DEF InsertRefund, processor, Rows
  <2>2. \A q \in Refunds : refund'[q] = IF q = r THEN "pending" ELSE refund[q]
    BY <2>1, <1>a DEF TypeOK
  <2>3. \A q \in Refunds : pc'[q] = "refused" => pc[q] = "refused"
    BY <1>3, <1>a DEF InsertRefund, Goto, TypeOK
  <2> QED
    BY <1>b, <2>1, <2>2, <2>3 DEF Exact, Posted
<1>4. ASSUME NEW r \in Refunds, CallRefund(r) PROVE Exact'
  <2>1. UNCHANGED <<posted, refund>> /\ r \notin accepted
    BY <1>4, <1>a DEF CallRefund, tables, Rows
  <2>2. \A q \in Refunds : q # r => pc'[q] = pc[q] /\ (q \in accepted' => q \in accepted)
    BY <1>4, <1>a DEF CallRefund, Goto, TypeOK
  <2>3. faults' = 0 /\ pc'[r] = "refused" => r \notin accepted'
    BY <1>4, <1>a, <2>1 DEF CallRefund, Goto, Fault, TypeOK
  <2> QED
    BY <1>b, <2>1, <2>2, <2>3 DEF Exact, Posted
<1>5. ASSUME NEW r \in Refunds, FailRefund(r) PROVE Exact'
  <2> SUFFICES ASSUME faults' = 0 PROVE Exact'
    BY DEF Exact
  <2>1. /\ UNCHANGED <<posted, accepted>> /\ pc[r] = "refused"
        /\ refund' = [refund EXCEPT ![r] = "failed"]
    BY <1>5, <1>a DEF FailRefund, FatalFault, processor
  <2>2. ~Posted(r)
    BY <1>b, <1>a, <2>1 DEF Exact, LedgerTellsTruth, PostedRefunds
  <2>3. \A q \in Refunds : refund'[q] = IF q = r THEN "failed" ELSE refund[q]
    BY <2>1, <1>a DEF TypeOK
  <2>4. \A q \in Refunds : pc'[q] = "refused" => pc[q] = "refused"
    BY <1>5, <1>a DEF FailRefund, Goto, TypeOK
  <2> QED
    BY <1>b, <2>1, <2>2, <2>3, <2>4 DEF Exact, Posted
<1>6. ASSUME NEW h \in Hooks, Process(h) PROVE Exact'
  <2>1. UNCHANGED <<accepted, pc>>
    BY <1>6 DEF Process, processor, requests
  <2>2. CASE refund' = refund /\ \A r \in Refunds : posted'[r] = posted[r]
    BY <1>b, <2>1, <2>2 DEF Exact, Posted
  <2>3. CASE h \in Refunds /\ refund[h] = "pending" /\ RefundSucceeded(h)
    <3>1. /\ refund' = [refund EXCEPT ![h] = "succeeded"]
          /\ posted' = [posted EXCEPT ![h] = IF posted[h] = 0 THEN 1 ELSE posted[h]]
      BY <2>3 DEF RefundSucceeded, Post
    <3>2. posted'[h] > 0 /\ \A r \in Refunds : r # h => posted'[r] = posted[r]
      <4>1. posted \in [Entries -> Nat] /\ h \in Entries /\ Refunds \subseteq Entries
        BY <1>a, <2>3 DEF TypeOK, Entries
      <4> HIDE DEF Entries
      <4> QED
        BY <3>1, <4>1
    <3>3. \A q \in Refunds : refund'[q] = IF q = h THEN "succeeded" ELSE refund[q]
      BY <3>1, <1>a DEF TypeOK
    <3> QED
      BY <1>b, <2>1, <3>2, <3>3 DEF Exact, Posted
  <2>4. CASE refund' = refund /\ Post("capture")
    <3>1. \A r \in Refunds : posted'[r] = posted[r]
      BY <2>4, <1>a, NamesAssumption DEF Post, TypeOK, Entries
    <3> QED
      BY <2>2, <2>4, <3>1
  <2> QED
    BY <1>6, <2>2, <2>3, <2>4 DEF Process, Apply, PaymentSucceeded, PaymentFailed,
       PaymentProcessing, RefundSucceeded, Hooks
<1>7. ASSUME NEW h \in Hooks, Deliver(h) \/ Claim(h) \/ ProcessFails(h) \/ WorkerDies(h)
      PROVE  Exact'
  BY <1>b, <1>7, ExactFrame DEF Deliver, Claim, ProcessFails, WorkerDies, tables, processor, requests
<1>8. CASE Settle \/ UNCHANGED vars
  BY <1>b, <1>8, ExactFrame DEF Settle, vars, tables, processor, requests
<1>9. CASE ServiceDies
  BY <1>9, <1>a DEF ServiceDies, FatalFault, Exact
<1> QED
  BY <1>1, <1>2, <1>3, <1>4, <1>5, <1>6, <1>7, <1>8, <1>9 DEF Next, RefundStep, WebhookStep

LEMMA RefundInductive == Spec => [](RefundInv /\ Exact)
<1>1. Init => RefundInv /\ Exact
  <2> SUFFICES ASSUME Init PROVE RefundInv /\ Exact
    OBVIOUS
  <2>1. Rows /\ Exact
    BY DEF Init, Rows, Exact, Posted, Entries
  <2>2. Room
    BY DEF Init, Room
  <2>3. Counted = {} /\ Sizes
    BY PayInit, SizeType DEF Init, Counted, PayInv
  <2>4. SumOf({}) <= Amount
    BY <2>3, SumEmpty, SizeNat
  <2>5. Fits
    BY <2>3, <2>4 DEF Fits
  <2> QED
    BY <2>1, <2>2, <2>5 DEF RefundInv
<1>2. PayInv /\ RefundInv /\ Exact /\ [Next]_vars => RefundInv' /\ Exact'
  BY RefundInvStep, ExactStep DEF PayInv
<1> QED
  BY <1>1, <1>2, PayInductive, PTL DEF Spec

(* privacy-and-retention.md promises that refunds stay within the captured  *)
(* amount; service.ts (refund) keeps it, without faults, of any refunds of  *)
(* which no two were summed up each before the row of the other was there.  *)
THEOREM OverlapsAloneExceed == Spec => []OnlyOverlapsExceed
<1>1. RefundInv /\ Exact => OnlyOverlapsExceed
  <2> SUFFICES ASSUME RefundInv, Exact, faults = 0,
                      ~ \E q, r \in PostedRefunds : q # r /\ q \notin before[r] /\ r \notin before[q]
               PROVE  SumOf(PostedRefunds) <= Amount
    BY DEF OnlyOverlapsExceed, RefundsWithinCapture
  <2>1. PostedRefunds \in SUBSET Counted
    BY DEF Exact, PostedRefunds, Counted
  <2>2. Apart(PostedRefunds)
    BY DEF Apart
  <2> QED
    BY <2>1, <2>2 DEF RefundInv, Fits
<1> QED
  BY <1>1, RefundInductive, PTL

-----------------------------------------------------------------------------
(* The status.  Without faults only a timeout token leads to the catch of   *)
(* create, and a payment.succeeded is applied once.                         *)
Smooth == faults = 0 /\ outcome # "timeout"

StatusInv ==
  /\ Smooth => \A c \in Calls : pc[c] # "refused"
  /\ StatusTellsLedger

(* Steps that leave the ledger alone, and the status or what it says.       *)
LEMMA StatusFrame ==
  ASSUME StatusInv, Smooth' => Smooth, UNCHANGED <<size, posted, receipts>>,
         Smooth' => \/ status' = status
                    \/ {status, status'} \cap (Refundable \cup {"refunded"}) = {},
         Smooth' => \A c \in Calls : pc'[c] = "refused" => pc[c] = "refused"
  PROVE  StatusInv'
<1>1. Smooth' => \A c \in Calls : pc'[c] # "refused"
  BY DEF StatusInv
<1>2. PostedRefunds' = PostedRefunds /\ SumOf(PostedRefunds)' = SumOf(PostedRefunds)
  BY SumFrame DEF PostedRefunds, Posted
<1>3. StatusTellsLedger'
  BY <1>2 DEF StatusInv, StatusTellsLedger, Smooth, Captured, Refundable
<1> QED
  BY <1>1, <1>3 DEF StatusInv

LEMMA StatusStep ==
  PayInv /\ ReceiptInv /\ RefundInv /\ Exact /\ Exact' /\ StatusInv /\ [Next]_vars => StatusInv'
<1> SUFFICES ASSUME PayInv, ReceiptInv, RefundInv, Exact, Exact', StatusInv, [Next]_vars
             PROVE  StatusInv'
  OBVIOUS
<1>a. TypeOK /\ Hooked /\ OneCaller /\ Backed /\ LedgerTellsTruth /\ Sizes /\ faults \in Nat
  BY Bounds, SizeType DEF PayInv, TypeOK
<1>b. (faults' = 0 => faults = 0) /\ outcome' = outcome /\ size' = size
  BY <1>a, FaultsStay
  DEF Next, Prepare, Repeat, CreateStep, CallProcessor, Submit, FailPayment, ReadPayment,
      RefundStep, SumRefunds, InsertRefund, CallRefund, RecordRefund, FailRefund, WebhookStep,
      Deliver, Claim, Process, ProcessFails, WorkerDies, Settle, ServiceDies, vars, choice
<1>c. Smooth' => Smooth
  BY <1>b DEF Smooth
<1>d. Amount \in Nat /\ Amount > 0
  BY CasesAssumption
<1>1. ASSUME NEW c \in Calls, Prepare(c) \/ Repeat(c) \/ CreateStep(c) PROVE StatusInv'
  <2>1. UNCHANGED <<posted, receipts>>
    BY <1>1 DEF Prepare, Repeat, CreateStep, CallProcessor, Submit, FailPayment, tables
  <2>2. Smooth => pc[c] # "refused"
    BY DEF StatusInv
  <2>3. Smooth' => \/ status' = status
                   \/ {status, status'} \cap (Refundable \cup {"refunded"}) = {}
    <3>1. CASE Prepare(c)
      <4>1. ~Captured /\ status' = "processing"
        BY <3>1, <1>a DEF Prepare, OneCaller, LedgerTellsTruth
      <4> QED
        BY <4>1, <1>a DEF Backed, Refundable
    <3>2. CASE Repeat(c) \/ CallProcessor(c) \/ Submit(c)
      BY <3>2 DEF Repeat, CallProcessor, Submit, tables
    <3>3. CASE FailPayment(c)
      BY <1>c, <2>2, <3>3 DEF FailPayment
    <3> QED
      BY <1>1, <3>1, <3>2, <3>3 DEF CreateStep
  <2>4. Smooth' => pc'[c] # "refused"
    BY <1>1, <1>a, <1>b DEF Prepare, Repeat, CreateStep, CallProcessor, Submit, FailPayment,
                            Goto, Answer, Fault, FatalFault, Smooth, TypeOK
  <2>5. \A d \in Calls : d # c => pc'[d] = pc[d]
    BY <1>1, <1>a DEF Prepare, Repeat, CreateStep, CallProcessor, Submit, FailPayment,
                      Goto, Answer, TypeOK
  <2> QED
    BY <1>b, <1>c, <2>1, <2>3, <2>4, <2>5, StatusFrame
<1>2. ASSUME NEW r \in Refunds, ReadPayment(r) \/ RefundStep(r) PROVE StatusInv'
  <2>1. UNCHANGED <<posted, receipts, status>>
    BY <1>2 DEF ReadPayment, RefundStep, SumRefunds, InsertRefund, CallRefund, RecordRefund,
                FailRefund, tables
  <2>2. \A c \in Calls : pc'[c] = pc[c]
    <3>1. \A c \in Calls : c # r
      BY NamesAssumption
    <3> QED
      BY <1>2, <1>a, <3>1 DEF ReadPayment, RefundStep, SumRefunds, InsertRefund, CallRefund,
                              RecordRefund, FailRefund, Goto, TypeOK
  <2> QED
    BY <1>b, <1>c, <2>1, <2>2, StatusFrame
<1>3. ASSUME NEW h \in Hooks, Deliver(h) \/ Claim(h) \/ ProcessFails(h) \/ WorkerDies(h)
      PROVE  StatusInv'
  BY <1>b, <1>c, <1>3, StatusFrame
  DEF Deliver, Claim, ProcessFails, WorkerDies, tables, requests
<1>4. CASE Settle \/ UNCHANGED vars
  BY <1>b, <1>c, <1>4, StatusFrame DEF Settle, vars, tables, requests
<1>5. CASE ServiceDies
  <2>1. faults' # 0
    BY <1>5, <1>a DEF ServiceDies, FatalFault
  <2> QED
    BY <2>1 DEF StatusInv, StatusTellsLedger, Smooth
<1>6. ASSUME NEW h \in Hooks, Process(h) PROVE StatusInv'
  <2> SUFFICES ASSUME Smooth' PROVE StatusInv'
    BY DEF StatusInv, StatusTellsLedger, Smooth
  <2>1. pc' = pc /\ Smooth
    BY <1>6, <1>c DEF Process, requests
  <2>2. /\ Captured <=> status \in Refundable \cup {"refunded"}
        /\ receipts = posted["capture"]
    BY <2>1 DEF StatusInv, StatusTellsLedger, Smooth
  <2>3. CASE h = "settled" /\ PaymentSucceeded
    <3>1. CASE AlreadySucceeded
      BY <1>b, <1>c, <2>1, <2>3, <3>1, StatusFrame DEF PaymentSucceeded
    <3>2. CASE ~AlreadySucceeded
      <4>1. ~Captured
        BY <1>6, <2>1, <2>3 DEF Process, ReceiptInv, Told, Smooth
      <4>2. /\ posted' = [posted EXCEPT !["capture"] = IF posted["capture"] = 0 THEN 1
                                                       ELSE posted["capture"]]
            /\ receipts' = receipts + 1 /\ status' = "succeeded"
        BY <2>3, <3>2 DEF PaymentSucceeded, Post
      <4>3. posted["capture"] = 0 /\ posted'["capture"] = 1
            /\ \A r \in Refunds : posted'[r] = posted[r]
        BY <4>1, <4>2, <1>a, NamesAssumption DEF Captured, TypeOK, Entries
      <4>4. PostedRefunds = {}
        BY <4>1, <1>a DEF LedgerTellsTruth
      <4>5. PostedRefunds' = {}
        BY <4>3, <4>4 DEF PostedRefunds, Posted
      <4>6. SumOf(PostedRefunds)' = 0
        BY <1>a, <1>b, <4>5, SumEmpty, SumFrame
      <4>7. StatusTellsLedger'
        BY <1>d, <2>2, <4>2, <4>3, <4>6 DEF StatusTellsLedger, Captured, Refundable
      <4> QED
        BY <2>1, <4>7 DEF StatusInv
    <3> QED
      BY <3>1, <3>2
  <2>4. CASE PaymentFailed \/ PaymentProcessing
    <3>1. UNCHANGED <<posted, receipts>>
      BY <2>4 DEF PaymentFailed, PaymentProcessing
    <3>2. status' = status \/ (status = "processing" /\ status' = "failed")
      BY <2>4 DEF PaymentFailed, PaymentProcessing
    <3> QED
      BY <1>b, <1>c, <2>1, <3>1, <3>2, StatusFrame DEF Refundable
  <2>5. CASE h \in Refunds /\ RefundSucceeded(h)
    <3>1. CASE refund[h] # "pending"
      BY <1>b, <1>c, <2>1, <2>5, <3>1, StatusFrame DEF RefundSucceeded
    <3>2. CASE refund[h] = "pending"
      <4> DEFINE S == {q \in Refunds : refund'[q] = "succeeded"}
      <4>1. /\ status' = IF SumOf(S) = Amount THEN "refunded" ELSE "partially_refunded"
            /\ posted' = [posted EXCEPT ![h] = IF posted[h] = 0 THEN 1 ELSE posted[h]]
            /\ receipts' = receipts /\ refund' = [refund EXCEPT ![h] = "succeeded"]
        BY <2>5, <3>2 DEF RefundSucceeded, Post
      <4>2. posted'["capture"] = posted["capture"]
        <5>1. posted \in [Entries -> Nat] /\ h \in Entries /\ "capture" \in Entries /\ h # "capture"
          BY <1>a, <2>5, NamesAssumption DEF TypeOK, Entries
        <5> HIDE DEF Entries
        <5> QED
          BY <4>1, <5>1
      <4>3. Captured
        BY <1>6, <1>a, <2>5 DEF Process, Hooked, Backed
      <4>4. PostedRefunds' = S
        BY <2>1 DEF Exact, PostedRefunds, Smooth
      <4>5. h \in S /\ S \in SUBSET Refunds
        BY <2>5, <4>1, <1>a DEF TypeOK
      <4>6. SumOf(S) = size[h] + SumOf(S \ {h}) /\ SumOf(S \ {h}) \in Nat
        BY <1>a, <4>5, SumAdd, SumType
      <4>7. SumOf(S) # 0
        BY <1>a, <2>5, <4>6, SizeNat
      <4>8. SumOf(PostedRefunds)' = SumOf(S)
        BY <1>b, <4>4, SumFrame
      <4>9. StatusTellsLedger'
        BY <1>d, <2>2, <4>1, <4>2, <4>3, <4>7, <4>8 DEF StatusTellsLedger, Captured, Refundable
      <4> QED
        BY <2>1, <4>9 DEF StatusInv
    <3> QED
      BY <3>1, <3>2
  <2> QED
    BY <1>6, <2>3, <2>4, <2>5 DEF Process, Apply, Hooks
<1> QED
  BY <1>1, <1>2, <1>3, <1>4, <1>5, <1>6 DEF Next, WebhookStep

(* processor.ts and service.ts: without faults, and but for timeout tokens, *)
(* the status of the payment says what is in the ledger, whatever refunds   *)
(* there are and in whatever order webhooks, answers and refunds come.      *)
THEOREM StatusAlwaysTellsLedger == Spec => []StatusTellsLedger
<1>1. Init => StatusInv
  <2> SUFFICES ASSUME Init PROVE StatusInv
    OBVIOUS
  <2>1. PostedRefunds = {} /\ ~Captured /\ posted["capture"] = 0
    BY DEF Init, PostedRefunds, Posted, Captured, Entries
  <2>2. SumOf(PostedRefunds) = 0
    BY <2>1, PayInit, SizeType, SumEmpty DEF PayInv
  <2>3. StatusTellsLedger
    BY <2>1, <2>2, CasesAssumption DEF Init, StatusTellsLedger, Refundable
  <2> QED
    BY <2>3 DEF Init, StatusInv
<1>2. PayInv /\ ReceiptInv /\ RefundInv /\ Exact /\ Exact' /\ StatusInv /\ [Next]_vars => StatusInv'
  BY StatusStep
<1>3. StatusInv => StatusTellsLedger
  BY DEF StatusInv
<1> QED
  BY <1>1, <1>2, <1>3, ReceiptInductive, RefundInductive, PayInductive, PTL DEF Spec
=============================================================================
