--------------------------- MODULE ErasureWorkflow ---------------------------
(***************************************************************************)
(* The durable workflow of privacy-service for one erasure request:        *)
(* worker.ts claims the request under a lease and runs the participants of *)
(* workflow.ts in order, recording each in privacy.erasure_steps; a repost *)
(* of the request (resumeIfEligible) makes a failed one pending again.     *)
(*                                                                         *)
(* Every pool.query and every participant.run is one action, because other *)
(* workers, crashes and the clock can come between any two of them.        *)
(* Neither the updates of the request nor those of a step check who holds  *)
(* the lease, and nothing stops a worker whose lease has run out.          *)
(***************************************************************************)
EXTENDS Naturals

CONSTANTS
  Workers,        \* the loops of runErasureWorker, one per privacy-service process
  NumSteps,       \* number of participants in workflow.ts
  MaxAttempts,    \* erasure_requests.max_attempts
  MaxFaults,      \* bound: errors and crashes that may happen in a behaviour
  Verified,       \* stores that completion-verification looks at
  NeedsContext,   \* stores whose data is found only through sensitiveValues
  LateWritable,   \* stores a consumer writes after an unlocked tombstone check
  PromptWorkers   \* TRUE: a participant never outlives the 30 second lease

Steps == 1 .. NumSteps
Quiescence == 1
Verification == NumSteps
Cleanup == 2 .. (NumSteps - 1)

ASSUME WorkflowAssumption ==
  /\ NumSteps \in Nat /\ NumSteps >= 2
  /\ MaxAttempts \in Nat \ {0}
  /\ MaxFaults \in Nat
  /\ Verified \subseteq Cleanup
  /\ NeedsContext \subseteq Cleanup
  /\ LateWritable \subseteq Cleanup
  /\ PromptWorkers \in BOOLEAN

VARIABLES
  status,      \* erasure_requests.status
  attempts,    \* erasure_requests.attempts
  lease,       \* erasure_requests.lease_until: NULL, in the future or in the past
  due,         \* next_attempt_at <= now()
  context,     \* subject_context still holds the sensitive values
  step,        \* erasure_steps.status, per participant
  tombstone,   \* the subject's row in privacy.erased_subjects exists
  store,       \* what the store that a cleanup participant owns holds
  checked,     \* stores whose consumer passed its tombstone check and may still write
  pc,          \* where each worker is
  at,          \* the participant it is at
  snapshot,    \* whether the request it claimed carried the sensitive values
  faults       \* errors and crashes so far

request == <<status, attempts, lease, due, context>>
data == <<tombstone, store, checked>>
worker == <<pc, at, snapshot, faults>>
vars == <<status, attempts, lease, due, context, step, tombstone, store, checked,
          pc, at, snapshot, faults>>

Working == {"read", "mark", "run", "markDone", "renew", "markFailed", "complete", "fail"}
Loop == Working \cup {"idle", "stopped", "down"}
\* Between finding a step unfinished and leaving it, finished or failed.
Executing == {"mark", "run", "markDone", "renew", "markFailed"}

Busy(w) == pc[w] \in Working

TypeOK ==
  /\ status \in {"pending", "processing", "failed", "completed"}
  /\ attempts \in 0 .. MaxAttempts
  /\ lease \in {"none", "live", "expired"}
  /\ due \in BOOLEAN
  /\ context \in BOOLEAN
  /\ step \in [Steps -> {"pending", "processing", "failed", "completed"}]
  /\ tombstone \in BOOLEAN
  /\ store \in [Cleanup -> {"raw", "erased"}]
  /\ checked \in SUBSET LateWritable
  /\ pc \in [Workers -> Loop]
  /\ at \in [Workers -> Steps]
  /\ snapshot \in [Workers -> BOOLEAN]
  /\ faults \in 0 .. MaxFaults

(* The row and its steps as createOrGet inserts them. *)
Init ==
  /\ status = "pending"
  /\ attempts = 0
  /\ lease = "none"
  /\ due = TRUE
  /\ context = TRUE
  /\ step = [k \in Steps |-> "pending"]
  /\ tombstone = FALSE
  /\ store = [k \in Cleanup |-> "raw"]
  /\ checked = {}
  /\ pc = [w \in Workers |-> "idle"]
  /\ at = [w \in Workers |-> Quiescence]
  /\ snapshot = [w \in Workers |-> TRUE]
  /\ faults = 0

-----------------------------------------------------------------------------
(* Errors. *)

OnThrowSwallowed(where) ==  \* mutant: an error of a participant is ignored
  CASE where = "run" -> "markDone"
    [] where \in {"markDone", "renew"} -> "markFailed"
    [] where \in {"read", "mark", "markFailed", "complete"} -> "fail"
    [] OTHER -> "stopped"

(* Where an exception takes a worker: before its try block runParticipant   *)
(* rejects straight into failRequest, inside it the step is marked failed   *)
(* first; a rejection of claimRequest or failRequest ends the worker loop.  *)
OnThrow(where) ==
  CASE where \in {"read", "mark", "markFailed", "complete"} -> "fail"
    [] where \in {"run", "markDone", "renew"} -> "markFailed"
    [] OTHER -> "stopped"

Fault ==
  /\ faults < MaxFaults
  /\ faults' = faults + 1

(* The statement was executed: its reply arrives, or the connection breaks  *)
(* before it does and the worker sees an exception.                         *)
Replied(w, next) ==
  \/ /\ pc' = [pc EXCEPT ![w] = next]
     /\ UNCHANGED faults
  \/ /\ pc' = [pc EXCEPT ![w] = OnThrow(pc[w])]
     /\ Fault

(* A statement, a claim or a participant rejects without having had effect. *)
Throw(w) ==
  /\ pc[w] \in Working \cup {"idle"}
  /\ Fault
  /\ pc' = [pc EXCEPT ![w] = OnThrow(pc[w])]
  /\ UNCHANGED <<request, step, data, at, snapshot>>

(* The privacy-service process dies; whatever it had committed stays. *)
Crash(w) ==
  /\ pc[w] # "down"
  /\ Fault
  /\ pc' = [pc EXCEPT ![w] = "down"]
  /\ UNCHANGED <<request, step, data, at, snapshot>>

Restart(w) ==
  /\ pc[w] = "down"
  /\ pc' = [pc EXCEPT ![w] = "idle"]
  /\ UNCHANGED <<request, step, data, at, snapshot, faults>>

-----------------------------------------------------------------------------
(* The worker. *)

ClaimableForever ==  \* mutant: the attempts are not counted
  /\ due
  /\ \/ status \in {"pending", "failed"}
     \/ status = "processing" /\ lease = "expired"

ClaimableIgnoringLease ==  \* mutant: a processing request is always up for grabs
  /\ attempts < MaxAttempts
  /\ due
  /\ status \in {"pending", "failed", "processing"}

ClaimableOnce ==  \* mutant: a request whose worker died is not taken over
  /\ attempts < MaxAttempts
  /\ due
  /\ status \in {"pending", "failed"}

(* The WHERE clause of the claim. *)
Claimable ==
  /\ attempts < MaxAttempts
  /\ due
  /\ \/ status \in {"pending", "failed"}
     \/ status = "processing" /\ lease = "expired"

Claim(w) ==
  /\ pc[w] = "idle"
  /\ Claimable
  /\ status' = "processing"
  /\ attempts' = attempts + 1
  /\ lease' = "live"
  /\ at' = [at EXCEPT ![w] = Quiescence]
  /\ snapshot' = [snapshot EXCEPT ![w] = context]
  /\ Replied(w, "read")
  /\ UNCHANGED <<due, context, step, data>>

(* The loop of processRequest moves on to the next participant. *)
AfterStep(w) == IF at[w] = NumSteps THEN "complete" ELSE "read"
NextStep(w) == IF at[w] = NumSteps THEN at ELSE [at EXCEPT ![w] = @ + 1]

CheckpointedIfStarted(w) ==  \* mutant: a step in progress counts as finished
  step[at[w]] \in {"processing", "completed"}

CheckpointedUnlessLast(w) ==  \* mutant: verification runs again in every attempt
  step[at[w]] = "completed" /\ at[w] # Verification

(* The step is on record as completed: the participant is skipped. *)
Checkpointed(w) == step[at[w]] = "completed"

SkipStep(w) ==
  /\ pc[w] = "read"
  /\ Checkpointed(w)
  /\ pc' = [pc EXCEPT ![w] = AfterStep(w)]
  /\ at' = NextStep(w)
  /\ UNCHANGED <<request, step, data, snapshot, faults>>

EnterStep(w) ==
  /\ pc[w] = "read"
  /\ ~Checkpointed(w)
  /\ pc' = [pc EXCEPT ![w] = "mark"]
  /\ UNCHANGED <<request, step, data, at, snapshot, faults>>

MarkProcessing(w) ==
  /\ pc[w] = "mark"
  /\ step' = [step EXCEPT ![at[w]] = "processing"]
  /\ Replied(w, "run")
  /\ UNCHANGED <<request, data, at, snapshot>>

(* quiesceSubject commits the suppression record. *)
RunQuiescence(w) ==
  /\ pc[w] = "run"
  /\ at[w] = Quiescence
  /\ tombstone' = TRUE
  /\ Replied(w, "markDone")
  /\ UNCHANGED <<request, step, store, checked, at, snapshot>>

(* A cleanup handler erases its store.  One that looks for the data by the  *)
(* values of subject_context finds none when they are gone.                 *)
Erasable(w, k) == snapshot[w] \/ k \notin NeedsContext

RunCleanup(w) ==
  /\ pc[w] = "run"
  /\ at[w] \in Cleanup
  /\ store' = IF Erasable(w, at[w])
              THEN [store EXCEPT ![at[w]] = "erased"] ELSE store
  /\ Replied(w, "markDone")
  /\ UNCHANGED <<request, step, tombstone, checked, at, snapshot>>

(* verifyCompletion throws when a store it reads still holds the subject.   *)
VerificationPasses(w) ==
  \A k \in Verified : store[k] = "raw" => ~Erasable(w, k)

RunVerification(w) ==
  /\ pc[w] = "run"
  /\ at[w] = Verification
  /\ pc' = [pc EXCEPT ![w] =
              IF VerificationPasses(w) THEN "markDone" ELSE "markFailed"]
  /\ UNCHANGED <<request, step, data, at, snapshot, faults>>

MarkCompleted(w) ==
  /\ pc[w] = "markDone"
  /\ step' = [step EXCEPT ![at[w]] = "completed"]
  /\ Replied(w, "renew")
  /\ UNCHANGED <<request, data, at, snapshot>>

RenewLease(w) ==
  /\ pc[w] = "renew"
  /\ lease' = "live"
  /\ \/ /\ pc' = [pc EXCEPT ![w] = AfterStep(w)]
        /\ at' = NextStep(w)
        /\ UNCHANGED faults
     \/ /\ pc' = [pc EXCEPT ![w] = OnThrow("renew")]
        /\ Fault
        /\ UNCHANGED at
  /\ UNCHANGED <<status, attempts, due, context, step, data, snapshot>>

MarkFailed(w) ==
  /\ pc[w] = "markFailed"
  /\ step' = [step EXCEPT ![at[w]] = "failed"]
  /\ pc' = [pc EXCEPT ![w] = "fail"]
  /\ UNCHANGED <<request, data, at, snapshot, faults>>

CompleteRequest(w) ==
  /\ pc[w] = "complete"
  /\ status' = "completed"
  /\ lease' = "none"
  /\ context' = FALSE
  /\ Replied(w, "idle")
  /\ UNCHANGED <<attempts, due, step, data, at, snapshot>>

FailRequest(w) ==
  /\ pc[w] = "fail"
  /\ status' = "failed"
  /\ lease' = "none"
  /\ due' = FALSE
  /\ Replied(w, "idle")
  /\ UNCHANGED <<attempts, context, step, data, at, snapshot>>

-----------------------------------------------------------------------------
(* The clock, the merchant and the consumers. *)

(* lease_until passes.  The heartbeat is the renewal after each participant *)
(* and nothing else, so only a prompt worker keeps its lease while it works.*)
LeaseExpires ==
  /\ lease = "live"
  /\ PromptWorkers => \A w \in Workers : ~Busy(w)
  /\ lease' = "expired"
  /\ UNCHANGED <<status, attempts, due, context, step, data, worker>>

BackoffElapses ==
  /\ ~due
  /\ due' = TRUE
  /\ UNCHANGED <<status, attempts, lease, context, step, data, worker>>

RepostAlways ==  \* mutant: a request being processed is reset as well
  /\ status # "completed"
  /\ attempts < MaxAttempts
  /\ status' = "pending"
  /\ due' = TRUE
  /\ UNCHANGED <<attempts, lease, context, step, data, worker>>

(* The merchant posts the request again: resumeIfEligible. *)
Repost ==
  /\ status = "failed"
  /\ attempts < MaxAttempts
  /\ status' = "pending"
  /\ due' = TRUE
  /\ UNCHANGED <<attempts, lease, context, step, data, worker>>

(* A consumer of domain events finds no tombstone and goes on ... *)
LateCheck(k) ==
  /\ ~tombstone
  /\ checked' = checked \cup {k}
  /\ UNCHANGED <<request, step, tombstone, store, worker>>

(* ... and commits what it derived from the event whenever it gets to it.   *)
LateWrite(k) ==
  /\ k \in checked
  /\ store' = [store EXCEPT ![k] = "raw"]
  /\ checked' = checked \ {k}
  /\ UNCHANGED <<request, step, tombstone, worker>>

-----------------------------------------------------------------------------
WorkerStep(w) ==
  \/ Claim(w) \/ SkipStep(w) \/ EnterStep(w) \/ MarkProcessing(w)
  \/ RunQuiescence(w) \/ RunCleanup(w) \/ RunVerification(w)
  \/ MarkCompleted(w) \/ RenewLease(w) \/ MarkFailed(w)
  \/ CompleteRequest(w) \/ FailRequest(w)

Next ==
  \/ \E w \in Workers : WorkerStep(w) \/ Throw(w) \/ Crash(w) \/ Restart(w)
  \/ LeaseExpires
  \/ BackoffElapses
  \/ Repost
  \/ \E k \in LateWritable : LateCheck(k) \/ LateWrite(k)

Spec == Init /\ [][Next]_vars

(* The event loop runs every worker whose promise has settled, timers fire, *)
(* and a process that died is started again.  A loop that ended in an       *)
(* exception is not: nothing in main.ts restarts it.                        *)
Fairness ==
  /\ \A w \in Workers : WF_vars(WorkerStep(w)) /\ WF_vars(Restart(w))
  /\ WF_vars(LeaseExpires)
  /\ WF_vars(BackoffElapses)

FairSpec == Spec /\ Fairness

(* A merchant who posts a failed request again for as long as it is failed. *)
RepostingSpec == FairSpec /\ WF_vars(Repost)

-----------------------------------------------------------------------------
(* Safety, for every interleaving: workers may outlive their leases. *)

(* No store is erased before the suppression record is durable, whichever   *)
(* workers overlap: replayed events find the tombstone from then on.        *)
SuppressionFirst ==
  (\E k \in Cleanup : store[k] = "erased") => tombstone

(* The checkpoints can be trusted: a step recorded as completed has erased  *)
(* its store, so a retry that skips it loses nothing.                       *)
CheckpointsHold ==
  /\ step[Quiescence] = "completed" => tombstone
  /\ \A k \in Cleanup \ LateWritable :
       step[k] = "completed" => store[k] = "erased"

(* A request is reported completed only over erased stores, and its         *)
(* sensitive values are dropped only then.                                  *)
CompletedMeansErased ==
  (status = "completed" \/ ~context) =>
    /\ tombstone
    /\ \A k \in Cleanup \ LateWritable : store[k] = "erased"

(* Safety, when no participant outlives the lease. *)

(* The lease makes one worker at a time the owner of the request. *)
SingleOwner ==
  \A v, w \in Workers : Busy(v) /\ Busy(w) => v = w

(* docs/privacy-api.md: `pending` is awaiting work and `failed` safe to     *)
(* retry; no worker of an earlier attempt is still at it.                   *)
IdleUnlessProcessing ==
  status \in {"pending", "failed"} => \A w \in Workers : ~Busy(w)

(* docs/privacy-and-retention.md: "It must not report `completed` while a   *)
(* required service is unavailable or still has work to do."                *)
NoWorkAfterCompletion ==
  status = "completed" => \A w \in Workers : pc[w] # "run"

(* Once the request has been completed no cleanup is repeated, even when    *)
(* the reply to the completing update is lost and the request is retried.   *)
CompletionIsFinal ==
  ~context =>
    /\ \A k \in Steps : step[k] = "completed"
    /\ \A w \in Workers : pc[w] \notin Executing

(* With attempts to spare the request gets there in spite of crashes, lost  *)
(* replies and late work, as long as one worker loop is left: each takes    *)
(* over what another left behind.                                           *)
CompletedUnlessLoopsEnd ==
  <>[](status = "completed" \/ \A w \in Workers : pc[w] = "stopped")

(* docs/privacy-and-retention.md: "Repeating a request after a partial      *)
(* failure must finish the same erasure".                                   *)
FailureIsFinished == (status = "failed") ~> (status = "completed")

-----------------------------------------------------------------------------
(* The promise, read off the tables: the request is done once its sensitive *)
(* values are gone, which only completeRequest does.                        *)
Promise == INSTANCE ErasurePromise
  WITH Domains <- Cleanup,
       suppressed <- tombstone,
       erased <- {k \in Cleanup : store[k] = "erased"},
       done <- ~context

ImplementsPromise == Promise!Spec
=============================================================================
