------------------------ MODULE ErasureWorkflowProofs ------------------------
(***************************************************************************)
(* Theorems about ErasureWorkflow, for any number of workers, participants, *)
(* attempts and faults:                                                    *)
(*   - typing;                                                             *)
(*   - what overlapping workers cannot break (DataInv);                    *)
(*   - what the lease guarantees to prompt workers (LeaseInv);             *)
(*   - ErasureWorkflow implements ErasurePromise when no consumer writes   *)
(*     late.                                                               *)
(***************************************************************************)
EXTENDS ErasureWorkflow, TLAPS

-----------------------------------------------------------------------------
(* Every action keeps the variables in their types: attempts stay within    *)
(* max_attempts because a claim needs one left, and a worker's participant  *)
(* within the registry because the last one leads to completeRequest.       *)
LEMMA TypeInductive == TypeOK /\ [Next]_vars => TypeOK'
<1> USE WorkflowAssumption
<1> SUFFICES ASSUME TypeOK, [Next]_vars
             PROVE  TypeOK'
  OBVIOUS
<1> USE DEF TypeOK, request, data, worker
<1>a. Quiescence \in Steps
  BY DEF Quiescence, Steps
<1>b. \A w \in Workers : pc[w] \in Loop /\ OnThrow(pc[w]) \in Loop
  BY DEF OnThrow, Loop, Working
<1>c. \A w \in Workers : AfterStep(w) \in Loop /\ NextStep(w) \in [Workers -> Steps]
  BY DEF AfterStep, NextStep, Loop, Working, Steps
<1>d. ASSUME Fault
      PROVE  faults' \in 0 .. MaxFaults
  BY <1>d DEF Fault
<1>e. ASSUME NEW w \in Workers, NEW next \in Loop, Replied(w, next)
      PROVE  pc' \in [Workers -> Loop] /\ faults' \in 0 .. MaxFaults
  BY <1>b, <1>d, <1>e DEF Replied
<1>f. {"idle", "down", "read", "run", "mark", "markDone", "renew", "markFailed", "fail"}
        \subseteq Loop
  BY DEF Loop, Working
<1>1. ASSUME NEW w \in Workers, Throw(w)
      PROVE  TypeOK'
  BY <1>1, <1>b, <1>d DEF Throw
<1>2. ASSUME NEW w \in Workers, Crash(w)
      PROVE  TypeOK'
  BY <1>2, <1>d, <1>f DEF Crash
<1>3. ASSUME NEW w \in Workers, Restart(w)
      PROVE  TypeOK'
  BY <1>3, <1>f DEF Restart
<1>4. ASSUME NEW w \in Workers, Claim(w)
      PROVE  TypeOK'
  <2>1. attempts' \in 0 .. MaxAttempts
    BY <1>4 DEF Claim, Claimable
  <2>2. pc' \in [Workers -> Loop] /\ faults' \in 0 .. MaxFaults
    BY <1>4, <1>e, <1>f DEF Claim
  <2> QED
    BY <1>4, <1>a, <2>1, <2>2 DEF Claim
<1>5. ASSUME NEW w \in Workers, SkipStep(w)
      PROVE  TypeOK'
  BY <1>5, <1>c DEF SkipStep
<1>6. ASSUME NEW w \in Workers, EnterStep(w)
      PROVE  TypeOK'
  BY <1>6, <1>f DEF EnterStep
<1>7. ASSUME NEW w \in Workers, MarkProcessing(w)
      PROVE  TypeOK'
  <2>1. pc' \in [Workers -> Loop] /\ faults' \in 0 .. MaxFaults
    BY <1>7, <1>e, <1>f DEF MarkProcessing
  <2> QED
    BY <1>7, <2>1 DEF MarkProcessing
<1>8. ASSUME NEW w \in Workers, RunQuiescence(w)
      PROVE  TypeOK'
  <2>1. pc' \in [Workers -> Loop] /\ faults' \in 0 .. MaxFaults
    BY <1>8, <1>e, <1>f DEF RunQuiescence
  <2> QED
    BY <1>8, <2>1 DEF RunQuiescence
<1>9. ASSUME NEW w \in Workers, RunCleanup(w)
      PROVE  TypeOK'
  <2>1. pc' \in [Workers -> Loop] /\ faults' \in 0 .. MaxFaults
    BY <1>9, <1>e, <1>f DEF RunCleanup
  <2> QED
    BY <1>9, <2>1 DEF RunCleanup
<1>10. ASSUME NEW w \in Workers, RunVerification(w)
       PROVE  TypeOK'
  BY <1>10, <1>f DEF RunVerification
<1>11. ASSUME NEW w \in Workers, MarkCompleted(w)
       PROVE  TypeOK'
  <2>1. pc' \in [Workers -> Loop] /\ faults' \in 0 .. MaxFaults
    BY <1>11, <1>e, <1>f DEF MarkCompleted
  <2> QED
    BY <1>11, <2>1 DEF MarkCompleted
<1>12. ASSUME NEW w \in Workers, RenewLease(w)
       PROVE  TypeOK'
  <2>1. OnThrow("renew") \in Loop
    BY DEF OnThrow, Loop, Working
  <2> QED
    BY <1>12, <1>c, <1>d, <2>1 DEF RenewLease
<1>13. ASSUME NEW w \in Workers, MarkFailed(w)
       PROVE  TypeOK'
  BY <1>13, <1>f DEF MarkFailed
<1>14. ASSUME NEW w \in Workers, CompleteRequest(w)
       PROVE  TypeOK'
  <2>1. pc' \in [Workers -> Loop] /\ faults' \in 0 .. MaxFaults
    BY <1>14, <1>e, <1>f DEF CompleteRequest
  <2> QED
    BY <1>14, <2>1 DEF CompleteRequest
<1>15. ASSUME NEW w \in Workers, FailRequest(w)
       PROVE  TypeOK'
  <2>1. pc' \in [Workers -> Loop] /\ faults' \in 0 .. MaxFaults
    BY <1>15, <1>e, <1>f DEF FailRequest
  <2> QED
    BY <1>15, <2>1 DEF FailRequest
<1>16. CASE LeaseExpires
  BY <1>16 DEF LeaseExpires
<1>17. CASE BackoffElapses
  BY <1>17 DEF BackoffElapses
<1>18. CASE Repost
  BY <1>18 DEF Repost
<1>19. ASSUME NEW k \in LateWritable, LateCheck(k)
       PROVE  TypeOK'
  BY <1>19 DEF LateCheck
<1>20. ASSUME NEW k \in LateWritable, LateWrite(k)
       PROVE  TypeOK'
  BY <1>20 DEF LateWrite
<1>21. CASE UNCHANGED vars
  BY <1>21 DEF vars
<1> QED
  BY <1>1, <1>2, <1>3, <1>4, <1>5, <1>6, <1>7, <1>8, <1>9, <1>10, <1>11, <1>12,
     <1>13, <1>14, <1>15, <1>16, <1>17, <1>18, <1>19, <1>20, <1>21
  DEF Next, WorkerStep

(* The workflow keeps to its types; in particular no request is attempted   *)
(* more often than max_attempts, however many workers claim it.             *)
THEOREM TypeCorrect == Spec => []TypeOK
<1>1. Init => TypeOK
  <2>1. Quiescence \in Steps /\ 0 \in 0 .. MaxAttempts /\ 0 \in 0 .. MaxFaults
    BY WorkflowAssumption DEF Steps, Quiescence
  <2>2. "idle" \in Loop
    BY DEF Loop
  <2> SUFFICES ASSUME Init
               PROVE  TypeOK
    OBVIOUS
  <2>3. /\ status \in {"pending", "processing", "failed", "completed"}
        /\ lease \in {"none", "live", "expired"}
        /\ due \in BOOLEAN /\ context \in BOOLEAN /\ tombstone \in BOOLEAN
        /\ attempts \in 0 .. MaxAttempts /\ faults \in 0 .. MaxFaults
        /\ checked \in SUBSET LateWritable
    BY <2>1 DEF Init
  <2>4. /\ step \in [Steps -> {"pending", "processing", "failed", "completed"}]
        /\ store \in [Cleanup -> {"raw", "erased"}]
    BY DEF Init
  <2>5. /\ pc \in [Workers -> Loop]
        /\ at \in [Workers -> Steps]
        /\ snapshot \in [Workers -> BOOLEAN]
    BY <2>1, <2>2 DEF Init
  <2> QED
    BY <2>3, <2>4, <2>5 DEF TypeOK
<1> QED
  BY <1>1, TypeInductive, PTL DEF Spec

-----------------------------------------------------------------------------
(* The effect of participant k is in place. *)
Done(k) ==
  /\ k = Quiescence => tombstone
  /\ k \in Cleanup \ LateWritable => store[k] = "erased"

(* Worker w has run participant k, or has found its checkpoint. *)
Past(w, k) ==
  \/ pc[w] \in Executing \cup {"read"} /\ at[w] > k
  \/ pc[w] \in {"markDone", "renew"} /\ at[w] = k
  \/ pc[w] = "complete"

(* Whatever overlaps, a worker moves on only past effects that are in place *)
(* and these stay in place; so do checkpoints and completion stand on them. *)
DataInv ==
  /\ SuppressionFirst
  /\ \A k \in Steps : step[k] = "completed" => Done(k)
  /\ \A w \in Workers, k \in Steps : Past(w, k) => Done(k)
  /\ (status = "completed" \/ ~context) => \A k \in Steps : Done(k)
  /\ \A w \in Workers : ~snapshot[w] => \A k \in Steps : Done(k)

(* Worker w has left participant k behind with its checkpoint recorded. *)
Recorded(w, k) ==
  \/ pc[w] \in Executing \cup {"read"} /\ at[w] > k
  \/ pc[w] = "renew" /\ at[w] = k
  \/ pc[w] = "complete"

(* A prompt worker holds a live lease on a processing request until it has *)
(* handed the request back; only the lost reply of the completing update   *)
(* leaves it on a completed one.                                           *)
LeaseInv ==
  /\ SingleOwner
  /\ \A w \in Workers : Busy(w) =>
       \/ status = "processing" /\ lease = "live"
       \/ status = "completed" /\ pc[w] = "fail"
  /\ status = "completed" => ~context
  /\ CompletionIsFinal
  /\ \A w \in Workers, k \in Steps : Recorded(w, k) => step[k] = "completed"

-----------------------------------------------------------------------------
(* Overlapping workers. *)

(* An effect, once in place, stays: only a late write makes a store raw.    *)
LEMMA DoneStable ==
  ASSUME TypeOK, [Next]_vars, NEW k \in Steps, Done(k)
  PROVE  Done(k)'
<1> USE DEF TypeOK, Done, request, data, worker
<1>1. tombstone => tombstone'
  BY DEF Next, WorkerStep, vars, Throw, Crash, Restart, Claim, SkipStep, EnterStep,
     MarkProcessing, RunQuiescence, RunCleanup, RunVerification, MarkCompleted,
     RenewLease, MarkFailed, CompleteRequest, FailRequest, LeaseExpires,
     BackoffElapses, Repost, LateCheck, LateWrite
<1>2. ASSUME k \in Cleanup \ LateWritable, store[k] = "erased"
      PROVE  store'[k] = "erased"
  <2>1. ASSUME NEW w \in Workers, RunCleanup(w)
        PROVE  store'[k] = "erased"
    BY <1>2, <2>1 DEF RunCleanup
  <2>2. ASSUME NEW j \in LateWritable, LateWrite(j)
        PROVE  store'[k] = "erased"
    BY <1>2, <2>2, WorkflowAssumption DEF LateWrite
  <2>3. CASE UNCHANGED store
    BY <1>2, <2>3
  <2> QED
    BY <2>1, <2>2, <2>3 DEF Next, WorkerStep, vars, Throw, Crash, Restart, Claim,
       SkipStep, EnterStep, MarkProcessing, RunQuiescence, RunVerification,
       MarkCompleted, RenewLease, MarkFailed, CompleteRequest, FailRequest,
       LeaseExpires, BackoffElapses, Repost, LateCheck
<1> QED
  BY <1>1, <1>2

(* What a step must show to preserve DataInv, given that effects stay.      *)
LEMMA DataFrame ==
  ASSUME TypeOK, DataInv, [Next]_vars,
         SuppressionFirst',
         \A k \in Steps : step'[k] = "completed" => step[k] = "completed" \/ Done(k)',
         \A w \in Workers, k \in Steps : Past(w, k)' => Past(w, k) \/ Done(k)',
         \/ ~(status' = "completed" \/ ~context')
         \/ status = "completed" \/ ~context
         \/ \A k \in Steps : Done(k)',
         \A w \in Workers : \/ snapshot'[w]
                          \/ ~snapshot[w]
                          \/ \A k \in Steps : Done(k)'
  PROVE  DataInv'
<1>1. \A k \in Steps : Done(k) => Done(k)'
  BY DoneStable
<1> QED
  BY <1>1 DEF DataInv

(* A step that leaves the tables and snapshots alone and takes the worker   *)
(* only to error handling, or nowhere, preserves DataInv.                   *)
LEMMA DataPcOnly ==
  ASSUME TypeOK, DataInv, [Next]_vars,
         UNCHANGED <<step, data, context, snapshot>>,
         status' = "completed" => status = "completed",
         \A w \in Workers, k \in Steps : Past(w, k)' => Past(w, k)
  PROVE  DataInv'
<1>1. SuppressionFirst'
  BY DEF DataInv, SuppressionFirst, data
<1> QED
  BY <1>1, DataFrame

LEMMA DataInductive == TypeOK /\ DataInv /\ [Next]_vars => DataInv'
<1> USE WorkflowAssumption
<1> SUFFICES ASSUME TypeOK, DataInv, [Next]_vars
             PROVE  DataInv'
  OBVIOUS
<1> USE DEF TypeOK, request, data, worker
<1>a. ASSUME UNCHANGED <<step, store, tombstone, pc, at, snapshot>>,
             status' = "completed" => status = "completed", context' = context,
             checked' = checked
      PROVE  DataInv'
  <2>1. \A v \in Workers, k \in Steps : Past(v, k)' => Past(v, k)
    BY <1>a DEF Past
  <2> QED
    BY <1>a, <2>1, DataPcOnly
<1>b. \A w \in Workers : at[w] \in Steps /\ at[w] \in Nat
  BY DEF Steps
<1>1. ASSUME NEW w \in Workers, Throw(w)
      PROVE  DataInv'
  <2>1. \A v \in Workers, k \in Steps : Past(v, k)' => Past(v, k)
    BY <1>1 DEF Throw, Past, OnThrow, Working, Executing
  <2> QED
    BY <1>1, <2>1, DataPcOnly DEF Throw
<1>2. ASSUME NEW w \in Workers, Crash(w)
      PROVE  DataInv'
  <2>1. \A v \in Workers, k \in Steps : Past(v, k)' => Past(v, k)
    BY <1>2 DEF Crash, Past, Executing
  <2> QED
    BY <1>2, <2>1, DataPcOnly DEF Crash
<1>3. ASSUME NEW w \in Workers, Restart(w)
      PROVE  DataInv'
  <2>1. \A v \in Workers, k \in Steps : Past(v, k)' => Past(v, k)
    BY <1>3 DEF Restart, Past, Executing
  <2> QED
    BY <1>3, <2>1, DataPcOnly DEF Restart
<1>4. ASSUME NEW w \in Workers, Claim(w)
      PROVE  DataInv'
  <2>1. SuppressionFirst'
    BY <1>4 DEF Claim, DataInv, SuppressionFirst
  <2>2. \A v \in Workers, k \in Steps : Past(v, k)' => Past(v, k)
    BY <1>4 DEF Claim, Past, Replied, OnThrow, Executing, Quiescence, Steps
  <2>3. \A v \in Workers : \/ snapshot'[v]
                          \/ ~snapshot[v]
                          \/ \A k \in Steps : Done(k)'
    BY <1>4, DoneStable DEF Claim, DataInv
  <2> QED
    BY <1>4, <2>1, <2>2, <2>3, DataFrame DEF Claim
<1>5. ASSUME NEW w \in Workers, SkipStep(w)
      PROVE  DataInv'
  <2>1. SuppressionFirst'
    BY <1>5 DEF SkipStep, DataInv, SuppressionFirst
  <2>2. ASSUME NEW v \in Workers, NEW k \in Steps, Past(v, k)'
        PROVE  Past(v, k) \/ Done(k)
    <3>1. CASE v # w
      BY <1>5, <2>2, <3>1 DEF SkipStep, NextStep, Past
    <3>2. CASE v = w /\ at[w] = k
      BY <1>5, <3>2 DEF SkipStep, Checkpointed, DataInv
    <3>3. CASE v = w /\ at[w] # k
      <4>1. at[w] > k
        BY <1>5, <1>b, <2>2, <3>3 DEF SkipStep, NextStep, AfterStep, Past, Executing, Steps
      <4> QED
        BY <1>5, <3>3, <4>1 DEF SkipStep, Past
    <3> QED
      BY <3>1, <3>2, <3>3
  <2> QED
    BY <1>5, <2>1, <2>2, DoneStable, DataFrame DEF SkipStep
<1>6. ASSUME NEW w \in Workers, EnterStep(w)
      PROVE  DataInv'
  <2>1. \A v \in Workers, k \in Steps : Past(v, k)' => Past(v, k)
    BY <1>6 DEF EnterStep, Past, Executing
  <2> QED
    BY <1>6, <2>1, DataPcOnly DEF EnterStep
<1>7. ASSUME NEW w \in Workers, MarkProcessing(w)
      PROVE  DataInv'
  <2>1. SuppressionFirst'
    BY <1>7 DEF MarkProcessing, DataInv, SuppressionFirst
  <2>2. \A v \in Workers, k \in Steps : Past(v, k)' => Past(v, k)
    BY <1>7 DEF MarkProcessing, Past, Replied, OnThrow, Executing
  <2>3. \A k \in Steps : step'[k] = "completed" => step[k] = "completed"
    BY <1>7 DEF MarkProcessing
  <2> QED
    BY <1>7, <2>1, <2>2, <2>3, DataFrame DEF MarkProcessing
<1>8. ASSUME NEW w \in Workers, RunQuiescence(w)
      PROVE  DataInv'
  <2>1. SuppressionFirst' /\ Done(Quiescence)'
    BY <1>8 DEF RunQuiescence, SuppressionFirst, Done, Quiescence, Cleanup
  <2>2. \A v \in Workers, k \in Steps : Past(v, k)' => Past(v, k) \/ Done(k)'
    BY <1>8, <2>1 DEF RunQuiescence, Past, Replied, OnThrow, Executing
  <2> QED
    BY <1>8, <2>1, <2>2, DataFrame DEF RunQuiescence
<1>9. ASSUME NEW w \in Workers, RunCleanup(w)
      PROVE  DataInv'
  <2>1. tombstone
    <3>1. Past(w, Quiescence) /\ Quiescence \in Steps
      BY <1>9 DEF RunCleanup, Past, Executing, Cleanup, Quiescence, Steps
    <3> QED
      BY <3>1 DEF DataInv, Done
  <2>2. SuppressionFirst'
    BY <1>9, <2>1 DEF RunCleanup, SuppressionFirst
  <2>3. Done(at[w])'
    <3>1. CASE Erasable(w, at[w])
      BY <1>9, <2>1, <3>1 DEF RunCleanup, Done
    <3>2. CASE ~Erasable(w, at[w])
      BY <1>9, <2>1, <3>2 DEF RunCleanup, Done, Erasable, DataInv
    <3> QED
      BY <3>1, <3>2
  <2>4. \A v \in Workers, k \in Steps : Past(v, k)' => Past(v, k) \/ Done(k)'
    BY <1>9, <2>3 DEF RunCleanup, Past, Replied, OnThrow, Executing
  <2> QED
    BY <1>9, <2>2, <2>4, DataFrame DEF RunCleanup
<1>10. ASSUME NEW w \in Workers, RunVerification(w)
       PROVE  DataInv'
  <2>1. Done(Verification)
    <3>1. Verification \notin Cleanup
      BY DEF Verification, Cleanup
    <3>2. Verification # Quiescence
      BY DEF Verification, Quiescence
    <3> QED
      BY <3>1, <3>2 DEF Done
  <2>2. \A v \in Workers, k \in Steps : Past(v, k)' => Past(v, k) \/ Done(k)
    BY <1>10, <2>1 DEF RunVerification, Past, Executing
  <2>3. SuppressionFirst'
    BY <1>10 DEF RunVerification, DataInv, SuppressionFirst
  <2> QED
    BY <1>10, <2>2, <2>3, DoneStable, DataFrame DEF RunVerification
<1>11. ASSUME NEW w \in Workers, MarkCompleted(w)
       PROVE  DataInv'
  <2>1. SuppressionFirst'
    BY <1>11 DEF MarkCompleted, DataInv, SuppressionFirst
  <2>2. \A v \in Workers, k \in Steps : Past(v, k)' => Past(v, k)
    BY <1>11 DEF MarkCompleted, Past, Replied, OnThrow, Executing
  <2>3. Done(at[w])
    BY <1>11 DEF MarkCompleted, Past, DataInv
  <2>4. \A k \in Steps : step'[k] = "completed" => step[k] = "completed" \/ Done(k)
    BY <1>11, <2>3 DEF MarkCompleted
  <2> QED
    BY <1>11, <2>1, <2>2, <2>4, DoneStable, DataFrame DEF MarkCompleted
<1>12. ASSUME NEW w \in Workers, RenewLease(w)
       PROVE  DataInv'
  <2>1. SuppressionFirst'
    BY <1>12 DEF RenewLease, DataInv, SuppressionFirst
  <2>2. ASSUME NEW v \in Workers, NEW k \in Steps, Past(v, k)'
        PROVE  Past(v, k)
    <3>1. CASE v # w
      BY <1>12, <2>2, <3>1 DEF RenewLease, NextStep, Past
    <3>2. CASE v = w /\ at[w] = k
      BY <1>12, <3>2 DEF RenewLease, Past
    <3>3. CASE v = w /\ at[w] # k
      <4>1. at[w] > k
        BY <1>12, <1>b, <2>2, <3>3
        DEF RenewLease, NextStep, AfterStep, Past, Executing, Steps, OnThrow
      <4> QED
        BY <1>12, <3>3, <4>1 DEF RenewLease, Past, Executing
    <3> QED
      BY <3>1, <3>2, <3>3
  <2> QED
    BY <1>12, <2>1, <2>2, DataFrame DEF RenewLease
<1>13. ASSUME NEW w \in Workers, MarkFailed(w)
       PROVE  DataInv'
  <2>1. SuppressionFirst'
    BY <1>13 DEF MarkFailed, DataInv, SuppressionFirst
  <2>2. \A v \in Workers, k \in Steps : Past(v, k)' => Past(v, k)
    BY <1>13 DEF MarkFailed, Past, Executing
  <2>3. \A k \in Steps : step'[k] = "completed" => step[k] = "completed"
    BY <1>13 DEF MarkFailed
  <2> QED
    BY <1>13, <2>1, <2>2, <2>3, DataFrame DEF MarkFailed
<1>14. ASSUME NEW w \in Workers, CompleteRequest(w)
       PROVE  DataInv'
  <2>1. SuppressionFirst'
    BY <1>14 DEF CompleteRequest, DataInv, SuppressionFirst
  <2>2. \A v \in Workers, k \in Steps : Past(v, k)' => Past(v, k)
    BY <1>14 DEF CompleteRequest, Past, Replied, OnThrow, Executing
  <2>3. \A k \in Steps : Done(k)
    BY <1>14 DEF CompleteRequest, Past, DataInv
  <2> QED
    BY <1>14, <2>1, <2>2, <2>3, DoneStable, DataFrame DEF CompleteRequest
<1>15. ASSUME NEW w \in Workers, FailRequest(w)
       PROVE  DataInv'
  <2>1. \A v \in Workers, k \in Steps : Past(v, k)' => Past(v, k)
    BY <1>15 DEF FailRequest, Past, Replied, OnThrow, Executing
  <2> QED
    BY <1>15, <2>1, DataPcOnly DEF FailRequest
<1>16. CASE LeaseExpires
  BY <1>16, <1>a DEF LeaseExpires
<1>17. CASE BackoffElapses
  BY <1>17, <1>a DEF BackoffElapses
<1>18. CASE Repost
  BY <1>18, <1>a DEF Repost
<1>19. ASSUME NEW k \in LateWritable, LateCheck(k)
       PROVE  DataInv'
  <2>1. SuppressionFirst'
    BY <1>19 DEF LateCheck, DataInv, SuppressionFirst
  <2>2. \A v \in Workers, j \in Steps : Past(v, j)' => Past(v, j)
    BY <1>19 DEF LateCheck, Past
  <2> QED
    BY <1>19, <2>1, <2>2, DataFrame DEF LateCheck
<1>20. ASSUME NEW k \in LateWritable, LateWrite(k)
       PROVE  DataInv'
  <2>1. SuppressionFirst'
    BY <1>20 DEF LateWrite, DataInv, SuppressionFirst
  <2>2. \A v \in Workers, j \in Steps : Past(v, j)' => Past(v, j)
    BY <1>20 DEF LateWrite, Past
  <2> QED
    BY <1>20, <2>1, <2>2, DataFrame DEF LateWrite
<1>21. CASE UNCHANGED vars
  BY <1>21, <1>a DEF vars
<1> QED
  BY <1>1, <1>2, <1>3, <1>4, <1>5, <1>6, <1>7, <1>8, <1>9, <1>10, <1>11, <1>12,
     <1>13, <1>14, <1>15, <1>16, <1>17, <1>18, <1>19, <1>20, <1>21
  DEF Next, WorkerStep

LEMMA DataInvariant == Spec => [](TypeOK /\ DataInv)
<1>1. Init => DataInv
  BY DEF Init, DataInv, SuppressionFirst, Past, Executing, Quiescence
<1> QED
  BY <1>1, TypeCorrect, DataInductive, PTL DEF Spec

(* For any number of overlapping workers and any faults: no store is erased *)
(* before the tombstone exists, so an event replayed after any destructive  *)
(* participant has started is suppressed.                                   *)
THEOREM SuppressionAlwaysFirst == Spec => []SuppressionFirst
<1>1. DataInv => SuppressionFirst
  BY DEF DataInv
<1> QED
  BY <1>1, DataInvariant, PTL

(* The checkpoints that a retry skips are always backed by their effects.   *)
THEOREM CheckpointsAlwaysHold == Spec => []CheckpointsHold
<1>1. TypeOK /\ DataInv => CheckpointsHold
  BY WorkflowAssumption
  DEF DataInv, CheckpointsHold, Done, Steps, Cleanup, Quiescence
<1> QED
  BY <1>1, DataInvariant, PTL

(* `completed` is never reported over a store that still holds the customer *)
(* unless a consumer wrote it late, even by workers that lost their lease.  *)
THEOREM CompletionAlwaysMeansErased == Spec => []CompletedMeansErased
<1>1. TypeOK /\ DataInv => CompletedMeansErased
  BY WorkflowAssumption
  DEF DataInv, CompletedMeansErased, Done, Steps, Cleanup, Quiescence
<1> QED
  BY <1>1, DataInvariant, PTL

-----------------------------------------------------------------------------
(* Refinement. *)

LEMMA PromiseInit == Init => Promise!Init
  BY DEF Init, Promise!Init

LEMMA PromiseStep ==
  ASSUME LateWritable = {}, TypeOK, DataInv, [Next]_vars
  PROVE  [Promise!Next]_(Promise!vars)
<1> USE WorkflowAssumption
<1> USE DEF TypeOK, request, data, worker
<1>a. ASSUME UNCHANGED <<tombstone, store, context>>
      PROVE  UNCHANGED Promise!vars
  BY <1>a DEF Promise!vars
<1>1. ASSUME NEW w \in Workers, RunQuiescence(w)
      PROVE  [Promise!Next]_(Promise!vars)
  <2>1. CASE tombstone
    BY <1>1, <2>1, <1>a DEF RunQuiescence
  <2>2. CASE ~tombstone
    <3>1. Promise!Suppress
      BY <1>1, <2>2 DEF RunQuiescence, Promise!Suppress
    <3> QED
      BY <3>1 DEF Promise!Next
  <2> QED
    BY <2>1, <2>2
<1>2. ASSUME NEW w \in Workers, RunCleanup(w)
      PROVE  [Promise!Next]_(Promise!vars)
  <2>1. PICK k \in Cleanup : k = at[w]
    BY <1>2 DEF RunCleanup
  <2>a. UNCHANGED <<tombstone, context>>
    BY <1>2 DEF RunCleanup
  <2>2. CASE store' = store
    BY <2>a, <2>2, <1>a
  <2>3. CASE store' # store
    <3>1. store' = [store EXCEPT ![k] = "erased"]
      BY <1>2, <2>1, <2>3 DEF RunCleanup
    <3>2. store[k] # "erased"
      BY <2>1, <2>3, <3>1
    <3>3. context
      BY <2>1, <3>2 DEF DataInv, Done, Cleanup, Steps
    <3>4. tombstone
      <4>1. Past(w, Quiescence) /\ Quiescence \in Steps
        BY <1>2 DEF RunCleanup, Past, Executing, Cleanup, Quiescence, Steps
      <4> QED
        BY <4>1 DEF DataInv, Done
    <3>5. {j \in Cleanup : store'[j] = "erased"}
            = {j \in Cleanup : store[j] = "erased"} \cup {k}
      BY <2>1, <3>1
    <3>6. Promise!Erase(k)
      BY <2>a, <3>3, <3>4, <3>5 DEF Promise!Erase
    <3> QED
      BY <3>6 DEF Promise!Next
  <2> QED
    BY <2>2, <2>3
<1>3. ASSUME NEW w \in Workers, CompleteRequest(w)
      PROVE  [Promise!Next]_(Promise!vars)
  <2>1. \A k \in Steps : Done(k)
    BY <1>3 DEF CompleteRequest, Past, DataInv
  <2>2. tombstone /\ \A k \in Cleanup : store[k] = "erased"
    BY <2>1 DEF Done, Steps, Cleanup, Quiescence
  <2>3. {k \in Cleanup : store[k] = "erased"} = Cleanup
    BY <2>2
  <2>4. Promise!Finish
    BY <1>3, <2>2, <2>3 DEF CompleteRequest, Promise!Finish
  <2> QED
    BY <2>4 DEF Promise!Next
<1>4. CASE UNCHANGED <<tombstone, store, context>>
  BY <1>4, <1>a
<1> QED
  BY <1>1, <1>2, <1>3, <1>4 DEF Next, WorkerStep, vars, Throw, Crash, Restart, Claim,
     SkipStep, EnterStep, MarkProcessing, RunVerification, MarkCompleted, RenewLease,
     MarkFailed, FailRequest, LeaseExpires, BackoffElapses, Repost

(* The workflow, with its leases, checkpoints, crashes and retries, keeps   *)
(* the promise of ErasurePromise: suppress, then erase, then complete, and  *)
(* nothing afterwards.  It needs no assumption on how long a worker takes,  *)
(* only that no consumer writes what it derived before the suppression.     *)
THEOREM WorkflowImplementsPromise ==
  ASSUME LateWritable = {}
  PROVE  Spec => ImplementsPromise
<1>1. TypeOK /\ DataInv /\ [Next]_vars => [Promise!Next]_(Promise!vars)
  BY PromiseStep
<1> QED
  BY <1>1, PromiseInit, DataInvariant, PTL DEF Spec, ImplementsPromise, Promise!Spec

-----------------------------------------------------------------------------
(* Prompt workers. *)

(* The state in which a busy worker may find the request. *)
Owned(w) ==
  \/ status = "processing" /\ lease = "live"
  \/ status = "completed" /\ pc[w] = "fail"

(* What a step that writes no checkpoint and claims nothing must show.      *)
LEMMA LeaseFrame ==
  ASSUME TypeOK, LeaseInv, UNCHANGED step,
         \A v \in Workers : Busy(v)' => Busy(v) /\ Owned(v)',
         status' = "completed" => ~context',
         \/ context'
         \/ /\ ~context
            /\ \A v \in Workers : pc'[v] \in Executing => pc[v] \in Executing
         \/ /\ \A k \in Steps : step[k] = "completed"
            /\ \A v \in Workers : pc'[v] \notin Executing,
         \A v \in Workers, k \in Steps :
           Recorded(v, k)' => Recorded(v, k) \/ step[k] = "completed"
  PROVE  LeaseInv'
<1>1. SingleOwner'
  BY DEF LeaseInv, SingleOwner
<1>2. CompletionIsFinal'
  BY DEF LeaseInv, CompletionIsFinal
<1>3. \A v \in Workers, k \in Steps : Recorded(v, k)' => step'[k] = "completed"
  BY DEF LeaseInv
<1> QED
  BY <1>1, <1>2, <1>3 DEF LeaseInv, Owned

LEMMA LeaseInductive ==
  ASSUME PromptWorkers
  PROVE  TypeOK /\ LeaseInv /\ [Next]_vars => LeaseInv'
<1> USE WorkflowAssumption
<1> SUFFICES ASSUME TypeOK, LeaseInv, [Next]_vars
             PROVE  LeaseInv'
  OBVIOUS
<1> USE DEF TypeOK, request, data, worker
<1>a. \A w \in Workers : Busy(w) => Owned(w)
  BY DEF LeaseInv, Owned
<1>b. \A w \in Workers : at[w] \in Steps /\ at[w] \in Nat
  BY DEF Steps
<1>c. /\ ~context => \A k \in Steps : step[k] = "completed"
      /\ ~context => \A w \in Workers : pc[w] \notin Executing
      /\ status = "completed" => ~context
  BY DEF LeaseInv, CompletionIsFinal
<1>d. \A v, w \in Workers : Busy(v) /\ Busy(w) => v = w
  BY DEF LeaseInv, SingleOwner
<1>e. \A v \in Workers, k \in Steps : Recorded(v, k) => step[k] = "completed"
  BY DEF LeaseInv
<1>1. ASSUME NEW w \in Workers, Throw(w)
      PROVE  LeaseInv'
  <2>1. \A v \in Workers : Busy(v)' => Busy(v) /\ Owned(v)'
    BY <1>1, <1>a, <1>c, <1>d DEF Throw, Busy, Owned, OnThrow, Working, Executing
  <2>2. status' = "completed" => ~context'
    BY <1>1, <1>c DEF Throw
  <2>3. \A v \in Workers : pc'[v] \in Executing => pc[v] \in Executing \/ context
    BY <1>1, <1>c DEF Throw, OnThrow, Working, Executing
  <2>4. \A v \in Workers, k \in Steps :
          Recorded(v, k)' => Recorded(v, k) \/ step[k] = "completed"
    BY <1>1, <1>b DEF Throw, Recorded, OnThrow, Working, Executing
  <2> QED
    BY <1>1, <1>c, <2>1, <2>2, <2>3, <2>4, LeaseFrame DEF Throw
<1>2. ASSUME NEW w \in Workers, Crash(w)
      PROVE  LeaseInv'
  <2>1. \A v \in Workers : Busy(v)' => Busy(v) /\ Owned(v)'
    BY <1>2, <1>a, <1>c, <1>d DEF Crash, Busy, Owned, OnThrow, Working, Executing
  <2>2. status' = "completed" => ~context'
    BY <1>2, <1>c DEF Crash
  <2>3. \A v \in Workers : pc'[v] \in Executing => pc[v] \in Executing \/ context
    BY <1>2, <1>c DEF Crash, OnThrow, Working, Executing
  <2>4. \A v \in Workers, k \in Steps :
          Recorded(v, k)' => Recorded(v, k) \/ step[k] = "completed"
    BY <1>2, <1>b DEF Crash, Recorded, OnThrow, Working, Executing
  <2> QED
    BY <1>2, <1>c, <2>1, <2>2, <2>3, <2>4, LeaseFrame DEF Crash
<1>3. ASSUME NEW w \in Workers, Restart(w)
      PROVE  LeaseInv'
  <2>1. \A v \in Workers : Busy(v)' => Busy(v) /\ Owned(v)'
    BY <1>3, <1>a, <1>c, <1>d DEF Restart, Busy, Owned, OnThrow, Working, Executing
  <2>2. status' = "completed" => ~context'
    BY <1>3, <1>c DEF Restart
  <2>3. \A v \in Workers : pc'[v] \in Executing => pc[v] \in Executing \/ context
    BY <1>3, <1>c DEF Restart, OnThrow, Working, Executing
  <2>4. \A v \in Workers, k \in Steps :
          Recorded(v, k)' => Recorded(v, k) \/ step[k] = "completed"
    BY <1>3, <1>b DEF Restart, Recorded, OnThrow, Working, Executing
  <2> QED
    BY <1>3, <1>c, <2>1, <2>2, <2>3, <2>4, LeaseFrame DEF Restart
<1>4. ASSUME NEW w \in Workers, Claim(w)
      PROVE  LeaseInv'
  <2>1. \A v \in Workers : ~Busy(v)
    BY <1>4, <1>a DEF Claim, Claimable, Owned
  <2>2. \A v \in Workers : v # w => pc'[v] = pc[v]
    BY <1>4 DEF Claim, Replied
  <2>3. pc'[w] \in {"read", "stopped"} /\ at'[w] = Quiescence
    BY <1>4 DEF Claim, Replied, OnThrow, Working
  <2>4. \A v \in Workers : Busy(v)' => v = w
    BY <2>1, <2>2 DEF Busy
  <2>5. SingleOwner'
    BY <2>4 DEF SingleOwner
  <2>6. \A v \in Workers : pc'[v] \notin Executing
    BY <2>1, <2>2, <2>3 DEF Busy, Executing, Working
  <2>7. CompletionIsFinal'
    BY <1>4, <1>c, <2>6 DEF Claim, CompletionIsFinal
  <2>8. \A v \in Workers, k \in Steps : ~Recorded(v, k)'
    BY <1>b, <2>1, <2>2, <2>3
    DEF Recorded, Busy, Working, Executing, Quiescence, Steps
  <2> QED
    BY <1>4, <2>5, <2>7, <2>8 DEF LeaseInv, Claim
<1>5. ASSUME NEW w \in Workers, SkipStep(w)
      PROVE  LeaseInv'
  <2>1. \A v \in Workers : Busy(v)' => Busy(v) /\ Owned(v)'
    BY <1>5, <1>a DEF SkipStep, AfterStep, Busy, Owned, Working
  <2>2. \A v \in Workers : pc'[v] \in Executing => pc[v] \in Executing
    BY <1>5 DEF SkipStep, AfterStep, Executing
  <2>3. ASSUME NEW v \in Workers, NEW k \in Steps, Recorded(v, k)'
        PROVE  Recorded(v, k) \/ step[k] = "completed"
    <3>1. CASE v # w
      BY <1>5, <2>3, <3>1 DEF SkipStep, NextStep, Recorded
    <3>2. CASE v = w /\ at[w] = k
      BY <1>5, <3>2 DEF SkipStep, Checkpointed
    <3>3. CASE v = w /\ at[w] # k
      <4>1. at[w] > k
        BY <1>5, <1>b, <2>3, <3>3
        DEF SkipStep, NextStep, AfterStep, Recorded, Executing, Steps
      <4> QED
        BY <1>5, <3>3, <4>1 DEF SkipStep, Recorded
    <3> QED
      BY <3>1, <3>2, <3>3
  <2> QED
    BY <1>5, <1>c, <2>1, <2>2, <2>3, LeaseFrame DEF SkipStep
<1>6. ASSUME NEW w \in Workers, EnterStep(w)
      PROVE  LeaseInv'
  <2>1. \A v \in Workers : Busy(v)' => Busy(v) /\ Owned(v)'
    BY <1>6, <1>a, <1>c, <1>d DEF EnterStep, Checkpointed, Busy, Owned, OnThrow, Working, Executing
  <2>2. status' = "completed" => ~context'
    BY <1>6, <1>c DEF EnterStep
  <2>3. \A v \in Workers : pc'[v] \in Executing => pc[v] \in Executing \/ context
    BY <1>6, <1>c DEF EnterStep, Checkpointed, OnThrow, Working, Executing
  <2>4. \A v \in Workers, k \in Steps :
          Recorded(v, k)' => Recorded(v, k) \/ step[k] = "completed"
    BY <1>6, <1>b DEF EnterStep, Recorded, OnThrow, Working, Executing
  <2> QED
    BY <1>6, <1>c, <2>1, <2>2, <2>3, <2>4, LeaseFrame DEF EnterStep
<1>7. ASSUME NEW w \in Workers, MarkProcessing(w)
      PROVE  LeaseInv'
  <2>1. pc[w] \in Executing /\ Busy(w)
    BY <1>7 DEF MarkProcessing, Busy, Working, Executing
  <2>2. context /\ status # "completed"
    BY <1>c, <2>1
  <2>3. \A v \in Workers : v # w => ~Busy(v) /\ pc'[v] = pc[v]
    BY <1>7, <1>d, <2>1 DEF MarkProcessing, Replied
  <2>4. SingleOwner'
    BY <2>3 DEF SingleOwner, Busy
  <2>5. status' = "processing" /\ lease' = "live" /\ context'
    BY <1>7, <1>a, <2>1, <2>2 DEF MarkProcessing, Owned
  <2>6. \A v \in Workers, k \in Steps : Recorded(v, k)' => step'[k] = "completed"
    <3>1. \A v \in Workers, k \in Steps : v # w => ~Recorded(v, k)'
      BY <1>7, <2>3 DEF MarkProcessing, Recorded, Busy, Working, Executing
    <3>2. \A k \in Steps : Recorded(w, k)' => Recorded(w, k) /\ k # at[w]
      BY <1>7, <1>b DEF MarkProcessing, Recorded, Replied, OnThrow, Executing, Steps
    <3>3. \A k \in Steps : k # at[w] => step'[k] = step[k]
      BY <1>7 DEF MarkProcessing
    <3> QED
      BY <1>7, <1>b, <1>e, <3>1, <3>2, <3>3 DEF MarkProcessing
  <2> QED
    BY <2>2, <2>4, <2>5, <2>6 DEF LeaseInv, CompletionIsFinal
<1>8. ASSUME NEW w \in Workers, RunQuiescence(w)
      PROVE  LeaseInv'
  <2>1. \A v \in Workers : Busy(v)' => Busy(v) /\ Owned(v)'
    BY <1>8, <1>a, <1>c, <1>d DEF RunQuiescence, Busy, Owned, OnThrow, Working, Executing, Replied
  <2>2. status' = "completed" => ~context'
    BY <1>8, <1>c DEF RunQuiescence
  <2>3. \A v \in Workers : pc'[v] \in Executing => pc[v] \in Executing \/ context
    BY <1>8, <1>c DEF RunQuiescence, OnThrow, Working, Executing, Replied
  <2>4. \A v \in Workers, k \in Steps :
          Recorded(v, k)' => Recorded(v, k) \/ step[k] = "completed"
    BY <1>8, <1>b DEF RunQuiescence, Recorded, OnThrow, Working, Executing, Replied
  <2> QED
    BY <1>8, <1>c, <2>1, <2>2, <2>3, <2>4, LeaseFrame DEF RunQuiescence
<1>9. ASSUME NEW w \in Workers, RunCleanup(w)
      PROVE  LeaseInv'
  <2>1. \A v \in Workers : Busy(v)' => Busy(v) /\ Owned(v)'
    BY <1>9, <1>a, <1>c, <1>d DEF RunCleanup, Busy, Owned, OnThrow, Working, Executing, Replied
  <2>2. status' = "completed" => ~context'
    BY <1>9, <1>c DEF RunCleanup
  <2>3. \A v \in Workers : pc'[v] \in Executing => pc[v] \in Executing \/ context
    BY <1>9, <1>c DEF RunCleanup, OnThrow, Working, Executing, Replied
  <2>4. \A v \in Workers, k \in Steps :
          Recorded(v, k)' => Recorded(v, k) \/ step[k] = "completed"
    BY <1>9, <1>b DEF RunCleanup, Recorded, OnThrow, Working, Executing, Replied
  <2> QED
    BY <1>9, <1>c, <2>1, <2>2, <2>3, <2>4, LeaseFrame DEF RunCleanup
<1>10. ASSUME NEW w \in Workers, RunVerification(w)
      PROVE  LeaseInv'
  <2>1. \A v \in Workers : Busy(v)' => Busy(v) /\ Owned(v)'
    BY <1>10, <1>a, <1>c, <1>d DEF RunVerification, Busy, Owned, OnThrow, Working, Executing
  <2>2. status' = "completed" => ~context'
    BY <1>10, <1>c DEF RunVerification
  <2>3. \A v \in Workers : pc'[v] \in Executing => pc[v] \in Executing \/ context
    BY <1>10, <1>c DEF RunVerification, OnThrow, Working, Executing
  <2>4. \A v \in Workers, k \in Steps :
          Recorded(v, k)' => Recorded(v, k) \/ step[k] = "completed"
    BY <1>10, <1>b DEF RunVerification, Recorded, OnThrow, Working, Executing
  <2> QED
    BY <1>10, <1>c, <2>1, <2>2, <2>3, <2>4, LeaseFrame DEF RunVerification
<1>11. ASSUME NEW w \in Workers, MarkCompleted(w)
      PROVE  LeaseInv'
  <2>1. pc[w] \in Executing /\ Busy(w)
    BY <1>11 DEF MarkCompleted, Busy, Working, Executing
  <2>2. context /\ status # "completed"
    BY <1>c, <2>1
  <2>3. \A v \in Workers : v # w => ~Busy(v) /\ pc'[v] = pc[v]
    BY <1>11, <1>d, <2>1 DEF MarkCompleted, Replied
  <2>4. SingleOwner'
    BY <2>3 DEF SingleOwner, Busy
  <2>5. status' = "processing" /\ lease' = "live" /\ context'
    BY <1>11, <1>a, <2>1, <2>2 DEF MarkCompleted, Owned
  <2>6. \A v \in Workers, k \in Steps : Recorded(v, k)' => step'[k] = "completed"
    <3>1. \A v \in Workers, k \in Steps : v # w => ~Recorded(v, k)'
      BY <1>11, <2>3 DEF MarkCompleted, Recorded, Busy, Working, Executing
    <3>2. \A k \in Steps : Recorded(w, k)' => Recorded(w, k) \/ k = at[w]
      BY <1>11 DEF MarkCompleted, Recorded, Replied, OnThrow, Executing
    <3>3. \A k \in Steps : k # at[w] => step'[k] = step[k]
      BY <1>11 DEF MarkCompleted
    <3> QED
      BY <1>11, <1>b, <1>e, <3>1, <3>2, <3>3 DEF MarkCompleted
  <2> QED
    BY <2>2, <2>4, <2>5, <2>6 DEF LeaseInv, CompletionIsFinal
<1>12. ASSUME NEW w \in Workers, RenewLease(w)
       PROVE  LeaseInv'
  <2>1. \A v \in Workers : Busy(v)' => Busy(v) /\ Owned(v)'
    BY <1>12, <1>a, <1>c DEF RenewLease, AfterStep, Busy, Owned, Working, OnThrow, Executing
  <2>2. \A v \in Workers : pc'[v] \in Executing => pc[v] \in Executing
    BY <1>12 DEF RenewLease, AfterStep, Executing, OnThrow
  <2>3. ASSUME NEW v \in Workers, NEW k \in Steps, Recorded(v, k)'
        PROVE  Recorded(v, k)
    <3>1. CASE v # w
      BY <1>12, <2>3, <3>1 DEF RenewLease, NextStep, Recorded
    <3>2. CASE v = w /\ at[w] = k
      BY <1>12, <3>2 DEF RenewLease, Recorded
    <3>3. CASE v = w /\ at[w] # k
      <4>1. at[w] > k
        BY <1>12, <1>b, <2>3, <3>3
        DEF RenewLease, NextStep, AfterStep, Recorded, Executing, Steps, OnThrow
      <4> QED
        BY <1>12, <3>3, <4>1 DEF RenewLease, Recorded, Executing
    <3> QED
      BY <3>1, <3>2, <3>3
  <2> QED
    BY <1>12, <1>c, <2>1, <2>2, <2>3, LeaseFrame DEF RenewLease
<1>13. ASSUME NEW w \in Workers, MarkFailed(w)
      PROVE  LeaseInv'
  <2>1. pc[w] \in Executing /\ Busy(w)
    BY <1>13 DEF MarkFailed, Busy, Working, Executing
  <2>2. context /\ status # "completed"
    BY <1>c, <2>1
  <2>3. \A v \in Workers : v # w => ~Busy(v) /\ pc'[v] = pc[v]
    BY <1>13, <1>d, <2>1 DEF MarkFailed, Replied
  <2>4. SingleOwner'
    BY <2>3 DEF SingleOwner, Busy
  <2>5. status' = "processing" /\ lease' = "live" /\ context'
    BY <1>13, <1>a, <2>1, <2>2 DEF MarkFailed, Owned
  <2>6. \A v \in Workers, k \in Steps : Recorded(v, k)' => step'[k] = "completed"
    <3>1. \A v \in Workers, k \in Steps : v # w => ~Recorded(v, k)'
      BY <1>13, <2>3 DEF MarkFailed, Recorded, Busy, Working, Executing
    <3>2. \A k \in Steps : Recorded(w, k)' => Recorded(w, k) /\ k # at[w]
      BY <1>13 DEF MarkFailed, Recorded, Executing
    <3>3. \A k \in Steps : k # at[w] => step'[k] = step[k]
      BY <1>13 DEF MarkFailed
    <3> QED
      BY <1>13, <1>b, <1>e, <3>1, <3>2, <3>3 DEF MarkFailed
  <2> QED
    BY <2>2, <2>4, <2>5, <2>6 DEF LeaseInv, CompletionIsFinal
<1>14. ASSUME NEW w \in Workers, CompleteRequest(w)
       PROVE  LeaseInv'
  <2>1. Busy(w) /\ \A v \in Workers : v # w => ~Busy(v) /\ pc'[v] = pc[v]
    BY <1>14, <1>d DEF CompleteRequest, Busy, Working, Replied
  <2>2. pc'[w] \in {"idle", "fail"}
    BY <1>14 DEF CompleteRequest, Replied, OnThrow
  <2>3. \A v \in Workers : pc'[v] \notin Executing
    BY <2>1, <2>2 DEF Busy, Working, Executing
  <2>4. \A k \in Steps : step[k] = "completed"
    BY <1>14, <1>e DEF CompleteRequest, Recorded
  <2>5. \A v \in Workers : Busy(v)' => Busy(v) /\ Owned(v)'
    BY <1>14, <2>1, <2>2 DEF CompleteRequest, Busy, Owned, Working
  <2> QED
    BY <1>14, <2>3, <2>4, <2>5, LeaseFrame DEF CompleteRequest
<1>15. ASSUME NEW w \in Workers, FailRequest(w)
       PROVE  LeaseInv'
  <2>1. Busy(w) /\ \A v \in Workers : v # w => ~Busy(v) /\ pc'[v] = pc[v]
    BY <1>15, <1>d DEF FailRequest, Busy, Working, Replied
  <2>2. pc'[w] \in {"idle", "stopped"}
    BY <1>15 DEF FailRequest, Replied, OnThrow
  <2>3. \A v \in Workers : ~Busy(v)' /\ pc'[v] \notin Executing
    BY <2>1, <2>2 DEF Busy, Working, Executing
  <2>4. \A v \in Workers, k \in Steps : ~Recorded(v, k)'
    BY <2>3 DEF Recorded, Busy, Working, Executing
  <2> QED
    BY <1>15, <1>c, <2>3, <2>4, LeaseFrame DEF FailRequest
<1>16. CASE LeaseExpires
  <2>1. \A v \in Workers : ~Busy(v)' /\ pc'[v] = pc[v]
    BY <1>16 DEF LeaseExpires, Busy
  <2>2. \A v \in Workers, k \in Steps : Recorded(v, k)' => Recorded(v, k)
    BY <1>16 DEF LeaseExpires, Recorded
  <2> QED
    BY <1>16, <1>c, <2>1, <2>2, LeaseFrame DEF LeaseExpires
<1>17. CASE BackoffElapses
  <2>1. \A v \in Workers : Busy(v)' => Busy(v) /\ Owned(v)'
    BY <1>17, <1>a DEF BackoffElapses, Busy, Owned
  <2>2. \A v \in Workers, k \in Steps : Recorded(v, k)' => Recorded(v, k)
    BY <1>17 DEF BackoffElapses, Recorded
  <2> QED
    BY <1>17, <1>c, <2>1, <2>2, LeaseFrame DEF BackoffElapses
<1>18. CASE Repost
  <2>1. \A v \in Workers : ~Busy(v)'
    BY <1>18, <1>a DEF Repost, Busy, Owned
  <2>2. \A v \in Workers, k \in Steps : Recorded(v, k)' => Recorded(v, k)
    BY <1>18 DEF Repost, Recorded
  <2> QED
    BY <1>18, <1>c, <2>1, <2>2, LeaseFrame DEF Repost
<1>19. CASE UNCHANGED <<status, lease, context, step, pc, at>>
  <2>1. \A v \in Workers : Busy(v)' => Busy(v) /\ Owned(v)'
    BY <1>19, <1>a DEF Busy, Owned
  <2>2. \A v \in Workers, k \in Steps : Recorded(v, k)' => Recorded(v, k)
    BY <1>19 DEF Recorded
  <2> QED
    BY <1>19, <1>c, <2>1, <2>2, LeaseFrame
<1> QED
  BY <1>1, <1>2, <1>3, <1>4, <1>5, <1>6, <1>7, <1>8, <1>9, <1>10, <1>11, <1>12,
     <1>13, <1>14, <1>15, <1>16, <1>17, <1>18, <1>19
  DEF Next, WorkerStep, LateCheck, LateWrite, vars

LEMMA LeaseInvariant ==
  ASSUME PromptWorkers
  PROVE  Spec => []LeaseInv
<1>1. Init => LeaseInv
  BY DEF Init, LeaseInv, SingleOwner, Busy, Working, CompletionIsFinal, Recorded, Executing
<1>2. TypeOK /\ LeaseInv /\ [Next]_vars => LeaseInv'
  BY LeaseInductive
<1> QED
  BY <1>1, <1>2, TypeCorrect, PTL DEF Spec

(* While no participant outlives its lease, at most one worker is at work   *)
(* on the request, through crashes, lost replies and reposts.               *)
THEOREM LeaseMakesSingleOwner ==
  ASSUME PromptWorkers
  PROVE  Spec => []SingleOwner
<1>1. LeaseInv => SingleOwner
  BY DEF LeaseInv
<1> QED
  BY <1>1, LeaseInvariant, PTL

(* ... so a request shown as pending or failed is nobody's, *)
THEOREM LeaseMakesRestIdle ==
  ASSUME PromptWorkers
  PROVE  Spec => []IdleUnlessProcessing
<1>1. LeaseInv => IdleUnlessProcessing
  BY DEF LeaseInv, IdleUnlessProcessing
<1> QED
  BY <1>1, LeaseInvariant, PTL

(* ... nothing runs under a request reported as completed, *)
THEOREM LeaseMakesCompletionQuiet ==
  ASSUME PromptWorkers
  PROVE  Spec => []NoWorkAfterCompletion
<1>1. LeaseInv => NoWorkAfterCompletion
  BY DEF LeaseInv, CompletionIsFinal, NoWorkAfterCompletion, Executing
<1> QED
  BY <1>1, LeaseInvariant, PTL

(* ... and after the first completion no cleanup is ever repeated.          *)
THEOREM LeaseMakesCompletionFinal ==
  ASSUME PromptWorkers
  PROVE  Spec => []CompletionIsFinal
<1>1. LeaseInv => CompletionIsFinal
  BY DEF LeaseInv
<1> QED
  BY <1>1, LeaseInvariant, PTL
=============================================================================
