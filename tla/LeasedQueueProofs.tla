------------------------- MODULE LeasedQueueProofs -------------------------
(***************************************************************************)
(* Proofs about LeasedQueue for any rows, workers, attempts and faults, for *)
(* every table: types, what a dead letter says, what a duplicate costs,    *)
(* and that each table keeps the promise of AtLeastOnce.                   *)
(*                                                                         *)
(* The inductive invariant ties a claim to the attempts of its row, a mark *)
(* to an effect that has taken place, and an owner to a row that is held:  *)
(* a row of the outbox that is done or dead has no owner, so that nobody   *)
(* passes the fence.  Duplicates are bounded by a sum that no step lets    *)
(* grow faster than the faults (Chance): the effects of a row, the workers *)
(* that are still to have theirs, and the claim that it is open to.        *)
(***************************************************************************)
EXTENDS LeasedQueue, FiniteSetTheorems, TLAPS

Claims ==
  \A w \in Workers, r \in Rows :
    /\ stage[w][r] # "none" => claimed[w][r] \in 1 .. tries[r]
    /\ stage[w][r] = "acted" => effects[r] > 0

Owners == \A r \in Rows : status[r] # "held" => owner[r] = Nobody

Done == \A r \in Rows : status[r] = "done" => effects[r] > 0 /\ tries[r] > 0

QueueInv == TypeOK /\ Claims /\ Owners /\ Done /\ DeadLettersTellTruth

-----------------------------------------------------------------------------
(* Types.                                                                   *)

LEMMA TriesBound == MaxTries \in Nat /\ MaxTries > 0
BY QueueAssumption

LEMMA FaultBound == MaxFaults \in Nat
BY QueueAssumption

LEMMA TypeStep == TypeOK /\ [Next]_vars => TypeOK'
<1> SUFFICES ASSUME TypeOK, [Next]_vars PROVE TypeOK'
  OBVIOUS
<1>0. ASSUME NEW w \in Workers, NEW S \in SUBSET Rows, Take(w, S), faults' \in 0 .. MaxFaults,
             kind = "email" => \A r \in S : tries[r] < MaxTries
      PROVE  TypeOK'
  <2>1. status' \in [Rows -> {"queued", "held", "done", "dead"}]
    BY <1>0 DEF TypeOK, Take
  <2>2. owner' \in [Rows -> Workers \cup {Nobody}] /\ tries' \in [Rows -> Nat]
    BY <1>0 DEF TypeOK, Take
  <2>3. /\ claimed' \in [Workers -> [Rows -> Nat]]
        /\ stage' \in [Workers -> [Rows -> {"none", "claimed", "acted", "failing"}]]
    BY <1>0 DEF TypeOK, Take
  <2>4. kind' = "email" => \A r \in Rows : tries'[r] <= MaxTries
    BY <1>0, TriesBound DEF TypeOK, Take
  <2> QED
    BY <1>0, <2>1, <2>2, <2>3, <2>4 DEF TypeOK, Take
<1>1. ASSUME NEW w \in Workers, Claim(w) PROVE TypeOK'
  <2>1. PICK S \in SUBSET {r \in Rows : Claimable(r)} : Take(w, S)
    BY <1>1 DEF Claim
  <2>2. kind = "email" => \A r \in S : tries[r] < MaxTries
    BY DEF Claimable
  <2>3. faults' \in 0 .. MaxFaults
    BY <1>1 DEF Claim, TypeOK
  <2> QED
    BY <1>0, <2>1, <2>2, <2>3
<1>1a. ASSUME NEW w \in Workers, Redeliver(w) PROVE TypeOK'
  <2>1. PICK r \in Rows : Take(w, {r}) /\ IF InHand(r) THEN Fault ELSE UNCHANGED faults
    BY <1>1a DEF Redeliver
  <2>2. kind # "email"
    BY <1>1a DEF Redeliver
  <2>3. faults' \in 0 .. MaxFaults
    BY <2>1, FaultBound DEF Fault, TypeOK
  <2> QED
    BY <1>0, <2>1, <2>2, <2>3
<1>2. ASSUME NEW w \in Workers, Recover(w) PROVE TypeOK'
  <2>1. status' \in [Rows -> {"queued", "held", "done", "dead"}]
    BY <1>2 DEF TypeOK, Recover
  <2>2. owner' \in [Rows -> Workers \cup {Nobody}]
    BY <1>2 DEF TypeOK, Recover
  <2>3. expired' \in [Rows -> BOOLEAN]
    BY <1>2 DEF TypeOK, Recover
  <2> QED
    BY <1>2, <2>1, <2>2, <2>3 DEF TypeOK, Recover, workers
<1>3. ASSUME NEW r \in Rows, LeaseEnds(r) \/ SlowWorker(r) PROVE TypeOK'
  <2>1. expired' \in [Rows -> BOOLEAN]
    BY <1>3 DEF TypeOK, LeaseEnds, SlowWorker, Expire
  <2>2. faults' \in 0 .. MaxFaults
    BY <1>3, FaultBound DEF TypeOK, LeaseEnds, SlowWorker, Fault
  <2> QED
    BY <1>3, <2>1, <2>2 DEF TypeOK, LeaseEnds, SlowWorker, Expire, workers
<1>4. ASSUME NEW w \in Workers, NEW r \in Rows, Act(w, r) PROVE TypeOK'
  BY <1>4 DEF TypeOK, Act, Enter, table
<1>5. ASSUME NEW w \in Workers, NEW r \in Rows, Fails(w, r) PROVE TypeOK'
  BY <1>5, FaultBound DEF TypeOK, Fails, Enter, Fault, table
<1>6. ASSUME NEW w \in Workers, NEW r \in Rows, Complete(w, r) PROVE TypeOK'
  <2>1. /\ status' \in [Rows -> {"queued", "held", "done", "dead"}]
        /\ owner' \in [Rows -> Workers \cup {Nobody}]
        /\ expired' \in [Rows -> BOOLEAN]
        /\ tries' = tries
    BY <1>6 DEF TypeOK, Complete, Mark
  <2>2. /\ claimed' \in [Workers -> [Rows -> Nat]]
        /\ stage' \in [Workers -> [Rows -> {"none", "claimed", "acted", "failing"}]]
    <3>1. CASE Leave(w, r)
      BY <3>1 DEF TypeOK, Leave
    <3>2. CASE Enter(w, r, "failing")
      BY <3>2 DEF TypeOK, Enter
    <3> QED
      BY <1>6, <3>1, <3>2 DEF Complete
  <2>3. effects' \in [Rows -> Nat]
    BY <1>6 DEF TypeOK, Complete
  <2>4. faults' \in 0 .. MaxFaults
    BY <1>6, FaultBound DEF TypeOK, Complete, Fault
  <2> QED
    BY <1>6, <2>1, <2>2, <2>3, <2>4 DEF TypeOK, Complete
<1>7. ASSUME NEW w \in Workers, NEW r \in Rows, Fail(w, r) PROVE TypeOK'
  <2>1. /\ status' \in [Rows -> {"queued", "held", "done", "dead"}]
        /\ owner' \in [Rows -> Workers \cup {Nobody}]
        /\ expired' \in [Rows -> BOOLEAN]
        /\ tries' = tries
    BY <1>7 DEF TypeOK, Fail, Mark, table
  <2>2. /\ claimed' \in [Workers -> [Rows -> Nat]]
        /\ stage' \in [Workers -> [Rows -> {"none", "claimed", "acted", "failing"}]]
    BY <1>7 DEF TypeOK, Fail, Leave
  <2>3. letters' = letters \/ letters' = [letters EXCEPT ![r] = letters[r] + 1]
    BY <1>7 DEF Fail, table
  <2>4. letters' \in [Rows -> Nat]
    BY <2>3 DEF TypeOK
  <2> QED
    BY <1>7, <2>1, <2>2, <2>4 DEF TypeOK, Fail
<1>8. ASSUME NEW w \in Workers, Crash(w) PROVE TypeOK'
  BY <1>8, FaultBound DEF TypeOK, Crash, Fault, table
<1>9. CASE UNCHANGED vars
  BY <1>9 DEF TypeOK, vars, table, workers
<1> QED
  BY <1>1, <1>1a, <1>2, <1>3, <1>4, <1>5, <1>6, <1>7, <1>8, <1>9 DEF Next, Work

-----------------------------------------------------------------------------
(* The rest of the invariant, action by action.                             *)

LEMMA InvStep == QueueInv /\ [Next]_vars => QueueInv'
<1> SUFFICES ASSUME QueueInv, [Next]_vars PROVE QueueInv'
  OBVIOUS
<1>a. TypeOK /\ TypeOK'
  BY TypeStep DEF QueueInv
<1> USE <1>a
<1>0. ASSUME NEW w \in Workers, NEW S \in SUBSET Rows, Take(w, S),
             \A r \in S : status[r] = "queued" \/ (status[r] = "held" /\ kind # "outbox")
      PROVE  QueueInv'
  <2>1. /\ status' = [r \in Rows |-> IF r \in S THEN "held" ELSE status[r]]
        /\ owner' = [r \in Rows |-> IF r \in S THEN w ELSE owner[r]]
        /\ tries' = [r \in Rows |-> IF r \in S THEN tries[r] + 1 ELSE tries[r]]
        /\ claimed' = [claimed EXCEPT ![w] = [r \in Rows |-> IF r \in S THEN tries[r] + 1 ELSE 0]]
        /\ stage' = [stage EXCEPT ![w] = [r \in Rows |-> IF r \in S THEN "claimed" ELSE "none"]]
    BY <1>0 DEF Take
  <2>2. kind' = kind /\ letters' = letters /\ effects' = effects
    BY <1>0 DEF Take
  <2>3. \A r \in Rows : tries'[r] >= tries[r]
    BY <2>1 DEF TypeOK
  <2>4. Claims'
    <3> SUFFICES ASSUME NEW v \in Workers, NEW r \in Rows
                 PROVE  /\ stage'[v][r] # "none" => claimed'[v][r] \in 1 .. tries'[r]
                        /\ stage'[v][r] = "acted" => effects'[r] > 0
      BY DEF Claims
    <3>1. CASE v = w
      BY <2>1, <3>1 DEF TypeOK
    <3>2. CASE v # w
      <4>1. stage'[v][r] = stage[v][r] /\ claimed'[v][r] = claimed[v][r]
        BY <2>1, <3>2 DEF TypeOK
      <4> QED
        BY <4>1, <2>2, <2>3 DEF QueueInv, Claims, TypeOK
    <3> QED
      BY <3>1, <3>2
  <2>5. Owners' /\ Done'
    BY <2>1, <2>2, <2>3 DEF QueueInv, Owners, Done, TypeOK
  <2>6. DeadLettersTellTruth'
    BY <1>0, <2>1, <2>2, <2>3, TriesBound DEF QueueInv, DeadLettersTellTruth, TypeOK
  <2> QED
    BY <2>4, <2>5, <2>6 DEF QueueInv
<1>1. ASSUME NEW w \in Workers, Claim(w) PROVE QueueInv'
  <2>1. PICK S \in SUBSET {r \in Rows : Claimable(r)} : Take(w, S)
    BY <1>1 DEF Claim
  <2>2. \A r \in S : status[r] = "queued"
    BY DEF Claimable
  <2> QED
    BY <1>0, <2>1, <2>2
<1>1a. ASSUME NEW w \in Workers, Redeliver(w) PROVE QueueInv'
  <2>1. PICK r \in Rows : status[r] = "held" /\ Take(w, {r})
    BY <1>1a DEF Redeliver
  <2>2. kind # "outbox"
    BY <1>1a DEF Redeliver
  <2> QED
    BY <1>0, <2>1, <2>2
<1>2. ASSUME NEW w \in Workers, Recover(w) PROVE QueueInv'
  <2>1. Claims'
    BY <1>2 DEF Recover, QueueInv, Claims, workers
  <2>2. Owners' /\ Done'
    BY <1>2 DEF Recover, QueueInv, Owners, Done, TypeOK
  <2>3. DeadLettersTellTruth'
    BY <1>2 DEF Recover, Recoverable, QueueInv, DeadLettersTellTruth, TypeOK
  <2> QED
    BY <2>1, <2>2, <2>3 DEF QueueInv
<1>3. ASSUME NEW r \in Rows, LeaseEnds(r) \/ SlowWorker(r) PROVE QueueInv'
  BY <1>3 DEF LeaseEnds, SlowWorker, Expire, QueueInv, Claims, Owners, Done,
              DeadLettersTellTruth, workers
<1>4. ASSUME NEW w \in Workers, NEW r \in Rows, Act(w, r) PROVE QueueInv'
  <2>1. effects' = [effects EXCEPT ![r] = effects[r] + 1]
    BY <1>4 DEF Act
  <2>2. \A q \in Rows : effects'[q] >= effects[q]
    BY <2>1 DEF TypeOK
  <2>3. Claims'
    <3> SUFFICES ASSUME NEW v \in Workers, NEW q \in Rows
                 PROVE  /\ stage'[v][q] # "none" => claimed'[v][q] \in 1 .. tries'[q]
                        /\ stage'[v][q] = "acted" => effects'[q] > 0
      BY DEF Claims
    <3>1. CASE v = w /\ q = r
      BY <1>4, <2>1, <3>1 DEF Act, At, Enter, table, QueueInv, Claims, TypeOK
    <3>2. CASE ~(v = w /\ q = r)
      <4>1. stage'[v][q] = stage[v][q] /\ claimed' = claimed /\ tries' = tries
        BY <1>4, <3>2 DEF Act, Enter, table, TypeOK
      <4> QED
        BY <4>1, <2>2 DEF QueueInv, Claims, TypeOK
    <3> QED
      BY <3>1, <3>2
  <2>4. Owners' /\ Done' /\ DeadLettersTellTruth'
    BY <1>4, <2>2 DEF Act, table, QueueInv, Owners, Done, DeadLettersTellTruth, TypeOK
  <2> QED
    BY <2>3, <2>4 DEF QueueInv
<1>5. ASSUME NEW w \in Workers, NEW r \in Rows, Fails(w, r) PROVE QueueInv'
  <2>0. effects' = effects \/ effects' = [effects EXCEPT ![r] = effects[r] + 1]
    BY <1>5 DEF Fails
  <2>1. \A q \in Rows : effects'[q] >= effects[q]
    <3>1. CASE effects' = effects
      BY <3>1 DEF TypeOK
    <3>2. CASE effects' = [effects EXCEPT ![r] = effects[r] + 1]
      BY <3>2 DEF TypeOK
    <3> QED
      BY <2>0, <3>1, <3>2
  <2>2. Claims'
    <3> SUFFICES ASSUME NEW v \in Workers, NEW q \in Rows
                 PROVE  /\ stage'[v][q] # "none" => claimed'[v][q] \in 1 .. tries'[q]
                        /\ stage'[v][q] = "acted" => effects'[q] > 0
      BY DEF Claims
    <3>1. CASE v = w /\ q = r
      BY <1>5, <3>1 DEF Fails, At, Enter, table, QueueInv, Claims, TypeOK
    <3>2. CASE ~(v = w /\ q = r)
      <4>1. stage'[v][q] = stage[v][q] /\ claimed' = claimed /\ tries' = tries
        BY <1>5, <3>2 DEF Fails, Enter, table, TypeOK
      <4> QED
        BY <4>1, <2>1 DEF QueueInv, Claims, TypeOK
    <3> QED
      BY <3>1, <3>2
  <2>3. Owners' /\ Done' /\ DeadLettersTellTruth'
    BY <1>5, <2>1 DEF Fails, table, QueueInv, Owners, Done, DeadLettersTellTruth, TypeOK
  <2> QED
    BY <2>2, <2>3 DEF QueueInv
<1>6. ASSUME NEW w \in Workers, NEW r \in Rows, Complete(w, r) PROVE QueueInv'
  <2>1. \A q \in Rows : effects'[q] >= effects[q]
    BY <1>6 DEF Complete, TypeOK
  <2>2. effects'[r] > 0 /\ tries' = tries /\ tries[r] > 0
    <3>1. tries' = tries
      BY <1>6 DEF Complete, Mark
    <3>2. stage[w][r] = IF Transactional THEN "claimed" ELSE "acted"
      BY <1>6 DEF Complete, At
    <3>3. tries[r] > 0 /\ (~Transactional => effects[r] > 0)
      <4>1. claimed[w][r] \in 1 .. tries[r] /\ tries[r] \in Nat
        BY <3>2 DEF QueueInv, Claims, TypeOK
      <4>2. stage[w][r] = "acted" => effects[r] > 0
        BY DEF QueueInv, Claims
      <4> QED
        BY <3>2, <4>1, <4>2
    <3>4. CASE Transactional
      <4>1. effects' = [effects EXCEPT ![r] = effects[r] + 1]
        BY <1>6, <3>4 DEF Complete
      <4>2. effects'[r] = effects[r] + 1 /\ effects[r] \in Nat
        BY <4>1 DEF TypeOK
      <4> QED
        BY <3>1, <3>3, <4>2
    <3>5. CASE ~Transactional
      BY <1>6, <3>1, <3>3, <3>5 DEF Complete
    <3> QED
      BY <3>4, <3>5
  <2>3. Claims'
    <3> SUFFICES ASSUME NEW v \in Workers, NEW q \in Rows
                 PROVE  /\ stage'[v][q] # "none" => claimed'[v][q] \in 1 .. tries'[q]
                        /\ stage'[v][q] = "acted" => effects'[q] > 0
      BY DEF Claims
    <3>1. CASE v = w /\ q = r
      <4>1. stage[w][r] # "none"
        BY <1>6 DEF Complete, At
      <4>2. stage'[w][r] = "none" \/ (stage'[w][r] = "failing" /\ claimed' = claimed)
        BY <1>6 DEF Complete, Leave, Enter, TypeOK
      <4> QED
        BY <2>2, <3>1, <4>1, <4>2 DEF QueueInv, Claims
    <3>2. CASE ~(v = w /\ q = r)
      <4>1. stage'[v][q] = stage[v][q] /\ claimed'[v][q] = claimed[v][q]
        BY <1>6, <3>2 DEF Complete, Leave, Enter, TypeOK
      <4> QED
        BY <4>1, <2>1, <2>2 DEF QueueInv, Claims, TypeOK
    <3> QED
      BY <3>1, <3>2
  <2>4. \/ status' = status /\ owner' = owner
        \/ /\ status' = [status EXCEPT ![r] = "done"]
           /\ owner' = [owner EXCEPT ![r] = Nobody]
           /\ Mine(w, r)
    BY <1>6 DEF Complete, Mark
  <2>3a. Owners'
    BY <2>4 DEF QueueInv, Owners, TypeOK
  <2>5. Done'
    <3> SUFFICES ASSUME NEW q \in Rows, status'[q] = "done"
                 PROVE  effects'[q] > 0 /\ tries'[q] > 0
      BY DEF Done
    <3>1. CASE q = r
      BY <2>2, <3>1
    <3>2. CASE q # r
      <4>1. status[q] = "done"
        BY <2>4, <3>2 DEF TypeOK
      <4> QED
        BY <4>1, <2>1, <2>2 DEF QueueInv, Done, TypeOK
    <3> QED
      BY <3>1, <3>2
  <2>6. letters' = letters /\ kind' = kind
    BY <1>6 DEF Complete
  <2>7. kind = "outbox" /\ Mine(w, r) => letters[r] = 0
    <3> SUFFICES ASSUME kind = "outbox", owner[r] = w PROVE letters[r] = 0
      BY DEF Mine
    <3>1. status[r] = "held"
      BY QueueAssumption DEF QueueInv, Owners
    <3> QED
      BY <3>1 DEF QueueInv, DeadLettersTellTruth
  <2>8. DeadLettersTellTruth'
    BY <2>2, <2>4, <2>6, <2>7 DEF QueueInv, DeadLettersTellTruth, TypeOK
  <2> QED
    BY <2>3, <2>3a, <2>5, <2>8 DEF QueueInv
<1>7. ASSUME NEW w \in Workers, NEW r \in Rows, Fail(w, r) PROVE QueueInv'
  <2>1. stage[w][r] = "failing" /\ claimed[w][r] \in 1 .. tries[r]
    BY <1>7 DEF Fail, At, QueueInv, Claims
  <2>2. effects' = effects /\ tries' = tries /\ kind' = kind
    BY <1>7 DEF Fail, Mark, table
  <2>3. Claims'
    <3> SUFFICES ASSUME NEW v \in Workers, NEW q \in Rows
                 PROVE  /\ stage'[v][q] # "none" => claimed'[v][q] \in 1 .. tries'[q]
                        /\ stage'[v][q] = "acted" => effects'[q] > 0
      BY DEF Claims
    <3>1. CASE v = w /\ q = r
      BY <1>7, <3>1 DEF Fail, Leave, TypeOK
    <3>2. CASE ~(v = w /\ q = r)
      <4>1. stage'[v][q] = stage[v][q] /\ claimed'[v][q] = claimed[v][q]
        BY <1>7, <3>2 DEF Fail, Leave, TypeOK
      <4> QED
        BY <4>1, <2>2 DEF QueueInv, Claims
    <3> QED
      BY <3>1, <3>2
  <2>4. kind = "outbox" /\ Mine(w, r) => letters[r] = 0
    <3> SUFFICES ASSUME kind = "outbox", owner[r] = w PROVE letters[r] = 0
      BY DEF Mine
    <3>1. status[r] = "held"
      BY QueueAssumption DEF QueueInv, Owners
    <3> QED
      BY <3>1 DEF QueueInv, DeadLettersTellTruth
  <2>5. \/ /\ Mine(w, r) /\ Exhausted(w, r)
           /\ status' = [status EXCEPT ![r] = IF kind = "email" THEN "queued" ELSE "dead"]
           /\ owner' = [owner EXCEPT ![r] = Nobody]
           /\ letters' = [letters EXCEPT ![r] = letters[r] + 1]
        \/ /\ Mine(w, r)
           /\ status' = [status EXCEPT ![r] = IF kind = "inbox once" THEN "held" ELSE "queued"]
           /\ owner' = [owner EXCEPT ![r] = Nobody]
           /\ letters' = letters
        \/ status' = status /\ owner' = owner /\ letters' = letters
    BY <1>7 DEF Fail, Mark, table
  <2>6. Owners' /\ Done'
    BY <2>2, <2>5 DEF QueueInv, Owners, Done, TypeOK
  <2>7. Exhausted(w, r) => tries[r] >= MaxTries
    <3>1. tries[r] \in Nat /\ claimed[w][r] \in Nat
      BY DEF TypeOK
    <3>2. claimed[w][r] <= tries[r]
      BY <2>1, <3>1
    <3>3. Exhausted(w, r) => claimed[w][r] >= MaxTries
      BY DEF Exhausted
    <3> QED
      BY <3>1, <3>2, <3>3, TriesBound
  <2>8. DeadLettersTellTruth'
    <3> SUFFICES ASSUME NEW q \in Rows
                 PROVE  /\ letters'[q] > 0 => tries'[q] >= MaxTries
                        /\ status'[q] = "dead" => letters'[q] > 0
                        /\ kind' = "outbox" => letters'[q] = IF status'[q] = "dead" THEN 1 ELSE 0
      BY DEF DeadLettersTellTruth
    <3>1. CASE status' = status /\ owner' = owner /\ letters' = letters
      BY <2>2, <3>1 DEF QueueInv, DeadLettersTellTruth
    <3>2. CASE q # r
      <4>1. status'[q] = status[q] /\ letters'[q] = letters[q]
        BY <2>5, <3>2 DEF TypeOK
      <4> QED
        BY <2>2, <4>1 DEF QueueInv, DeadLettersTellTruth
    <3>3. ASSUME q = r, Mine(w, r), Exhausted(w, r),
                 status' = [status EXCEPT ![r] = IF kind = "email" THEN "queued" ELSE "dead"],
                 letters' = [letters EXCEPT ![r] = letters[r] + 1]
          PROVE  /\ letters'[q] > 0 => tries'[q] >= MaxTries
                 /\ status'[q] = "dead" => letters'[q] > 0
                 /\ kind' = "outbox" => letters'[q] = IF status'[q] = "dead" THEN 1 ELSE 0
      <4>1. letters'[r] = letters[r] + 1 /\ letters[r] \in Nat
        BY <3>3 DEF TypeOK
      <4>2. status'[r] = IF kind = "email" THEN "queued" ELSE "dead"
        BY <3>3 DEF TypeOK
      <4> QED
        BY <2>2, <2>4, <2>7, <3>3, <4>1, <4>2
    <3>4. ASSUME q = r, Mine(w, r), letters' = letters,
                 status' = [status EXCEPT ![r] = IF kind = "inbox once" THEN "held" ELSE "queued"]
          PROVE  /\ letters'[q] > 0 => tries'[q] >= MaxTries
                 /\ status'[q] = "dead" => letters'[q] > 0
                 /\ kind' = "outbox" => letters'[q] = IF status'[q] = "dead" THEN 1 ELSE 0
      <4>1. status'[r] \in {"queued", "held"}
        BY <3>4 DEF TypeOK
      <4> QED
        BY <2>2, <2>4, <3>4, <4>1 DEF QueueInv, DeadLettersTellTruth
    <3> QED
      BY <2>5, <3>1, <3>2, <3>3, <3>4
  <2> QED
    BY <2>3, <2>6, <2>8 DEF QueueInv
<1>8. ASSUME NEW w \in Workers, Crash(w) PROVE QueueInv'
  <2>1. Claims'
    BY <1>8 DEF Crash, table, QueueInv, Claims, TypeOK
  <2> QED
    BY <1>8, <2>1 DEF Crash, table, QueueInv, Owners, Done, DeadLettersTellTruth
<1>9. CASE UNCHANGED vars
  BY <1>9 DEF vars, table, workers, QueueInv, Claims, Owners, Done, DeadLettersTellTruth
<1> QED
  BY <1>1, <1>1a, <1>2, <1>3, <1>4, <1>5, <1>6, <1>7, <1>8, <1>9 DEF Next, Work, QueueInv

LEMMA Inductive == Spec => []QueueInv
<1>1. Init => QueueInv
  BY TriesBound, FaultBound DEF Init, QueueInv, TypeOK, Claims, Owners, Done, DeadLettersTellTruth
<1> QED
  BY <1>1, InvStep, PTL DEF Spec

(* Every variable keeps its type, and an e-mail is never tried more often   *)
(* than its attempts allow (claimEmailDelivery).                            *)
THEOREM QueueTypeCorrect == Spec => []TypeOK
<1>1. QueueInv => TypeOK
  BY DEF QueueInv
<1> QED
  BY <1>1, Inductive, PTL

(* A dead letter (failJob, fail, markEmailFailed, markOutboxFailed) is      *)
(* written only after MaxTries attempts, and in the outbox it is the last   *)
(* word on its row.                                                         *)
THEOREM DeadLettersAlwaysTellTruth == Spec => []DeadLettersTellTruth
<1>1. QueueInv => DeadLettersTellTruth
  BY DEF QueueInv
<1> QED
  BY <1>1, Inductive, PTL

-----------------------------------------------------------------------------
(* Duplicates.  What may still have an effect on a row, each at most once   *)
(* unless a fault intervenes, are the workers that have it before them and, *)
(* when the row is open to another claim, that claim.                       *)
AtWork(r) == {w \in Workers : stage[w][r] \in {"claimed", "failing"}}
Open(r) == status[r] = "queued" \/ (status[r] = "held" /\ (~InHand(r) \/ expired[r]))
One(P) == IF P THEN 1 ELSE 0

Chance(r) ==
  /\ IsFiniteSet(AtWork(r))
  /\ effects[r] + Cardinality(AtWork(r)) + One(Open(r)) <= 1 + faults

(* Only a lease that is held expires, and a row of the outbox belongs to    *)
(* whoever has it in hand.                                                  *)
Leases ==
  /\ \A r \in Rows : expired[r] => Leased /\ status[r] = "held"
  /\ kind = "outbox" =>
       \A w \in Workers, r \in Rows :
         stage[w][r] # "none" /\ claimed[w][r] = tries[r] /\ status[r] = "held" => owner[r] = w

ChanceInv == Leases /\ \A r \in Rows : Chance(r)

LEMMA LeasesStep == QueueInv /\ Leases /\ [Next]_vars => Leases'
<1> SUFFICES ASSUME QueueInv, Leases, [Next]_vars PROVE Leases'
  OBVIOUS
<1>a. TypeOK /\ Claims /\ \A w \in Workers, r \in Rows : tries[r] \in Nat /\ claimed[w][r] \in Nat
  BY DEF QueueInv, TypeOK
<1>0. ASSUME NEW w \in Workers, NEW S \in SUBSET Rows, Take(w, S),
             \A r \in S : status[r] = "queued" \/ ~Leased
      PROVE  Leases'
  <2>1. /\ \A r \in Rows : /\ status'[r] = IF r \in S THEN "held" ELSE status[r]
                           /\ owner'[r] = IF r \in S THEN w ELSE owner[r]
                           /\ tries'[r] = IF r \in S THEN tries[r] + 1 ELSE tries[r]
        /\ kind' = kind /\ expired' = expired
    BY <1>0 DEF Take
  <2>2. \A v \in Workers, r \in Rows :
          /\ v # w => stage'[v][r] = stage[v][r] /\ claimed'[v][r] = claimed[v][r]
          /\ stage'[w][r] # "none" => r \in S
    BY <1>0, <1>a DEF Take, TypeOK
  <2>3. \A v \in Workers, r \in S : v # w /\ stage[v][r] # "none" => claimed[v][r] # tries[r] + 1
    BY <1>a DEF Claims
  <2>4. \A r \in Rows : expired'[r] => Leased' /\ status'[r] = "held"
    BY <1>0, <2>1 DEF Leases, Leased
  <2> QED
    BY <2>1, <2>2, <2>3, <2>4 DEF Leases
<1>1. ASSUME NEW w \in Workers, Claim(w) \/ Redeliver(w) PROVE Leases'
  <2>1. CASE Claim(w)
    <3>1. PICK S \in SUBSET {r \in Rows : Claimable(r)} : Take(w, S)
      BY <2>1 DEF Claim
    <3> QED
      BY <1>0, <3>1 DEF Claimable
  <2>2. CASE Redeliver(w)
    BY <1>0, <2>2 DEF Redeliver, Leased
  <2> QED
    BY <1>1, <2>1, <2>2
<1>2. ASSUME NEW w \in Workers, Recover(w) PROVE Leases'
  <2>1. \A r \in Rows : /\ status'[r] = IF r \in Recoverable THEN "queued" ELSE status[r]
                        /\ owner'[r] = IF r \in Recoverable THEN Nobody ELSE owner[r]
                        /\ expired'[r] = IF r \in Recoverable THEN FALSE ELSE expired[r]
    BY <1>2 DEF Recover
  <2> QED
    BY <1>2, <2>1 DEF Recover, workers, Leases, Leased
<1>3. ASSUME NEW r \in Rows, LeaseEnds(r) \/ SlowWorker(r) PROVE Leases'
  BY <1>3, <1>a DEF LeaseEnds, SlowWorker, Expire, workers, Leases, Leased, TypeOK
<1>4. ASSUME NEW w \in Workers, NEW r \in Rows, Act(w, r) \/ Fails(w, r) PROVE Leases'
  <2>1. /\ stage[w][r] # "none"
        /\ \E s \in {"acted", "failing"} : stage' = [stage EXCEPT ![w][r] = s]
    BY <1>4 DEF Act, Fails, At, Enter
  <2>2. \A v \in Workers, q \in Rows : stage'[v][q] # "none" => stage[v][q] # "none"
    BY <2>1, <1>a DEF TypeOK
  <2> QED
    BY <1>4, <2>2 DEF Act, Fails, Enter, table, Leases, Leased
<1>5. ASSUME NEW w \in Workers, NEW r \in Rows, Complete(w, r) \/ Fail(w, r) PROVE Leases'
  <2>0. stage[w][r] # "none" /\ (Leave(w, r) \/ Enter(w, r, "failing"))
    BY <1>5 DEF Complete, Fail, At
  <2>1. \A v \in Workers, q \in Rows :
          stage'[v][q] # "none" => stage[v][q] # "none" /\ claimed'[v][q] = claimed[v][q]
    <3>1. CASE Leave(w, r)
      BY <3>1, <1>a DEF Leave, TypeOK
    <3>2. CASE Enter(w, r, "failing")
      BY <2>0, <3>2, <1>a DEF Enter, TypeOK
    <3> QED
      BY <2>0, <3>1, <3>2
  <2>2. tries' = tries /\ kind' = kind
    BY <1>5 DEF Complete, Fail, Mark, table
  <2>3. \/ UNCHANGED <<status, owner, expired>>
        \/ \E s \in {"queued", "held", "done", "dead"} : Mark(r, s) /\ (s = "held" => kind = "inbox once")
    BY <1>5 DEF Complete, Fail, table
  <2>4. CASE UNCHANGED <<status, owner, expired>>
    BY <2>1, <2>2, <2>4 DEF Leases, Leased
  <2>5. ASSUME NEW s \in {"queued", "held", "done", "dead"}, Mark(r, s), s = "held" => kind = "inbox once"
        PROVE  Leases'
    <3>1. \A q \in Rows : /\ status'[q] = IF q = r THEN s ELSE status[q]
                          /\ owner'[q] = IF q = r THEN Nobody ELSE owner[q]
                          /\ expired'[q] = IF q = r THEN FALSE ELSE expired[q]
      BY <1>a, <2>5 DEF Mark, TypeOK
    <3>2. \A q \in Rows : expired'[q] => Leased' /\ status'[q] = "held"
      BY <2>2, <3>1 DEF Leases, Leased
    <3>3. ASSUME kind = "outbox", NEW v \in Workers, NEW q \in Rows,
                 stage'[v][q] # "none", claimed'[v][q] = tries'[q], status'[q] = "held"
          PROVE  owner'[q] = v
      <4>1. q # r
        BY <2>5, <3>1, <3>3
      <4>2. stage[v][q] # "none" /\ claimed[v][q] = tries[q]
        BY <2>1, <2>2, <3>3
      <4>3. status[q] = "held" /\ owner'[q] = owner[q]
        BY <3>1, <3>3, <4>1
      <4> QED
        BY <3>3, <4>2, <4>3 DEF Leases
    <3> QED
      BY <2>2, <3>2, <3>3 DEF Leases
  <2> QED
    BY <2>3, <2>4, <2>5
<1>6. ASSUME NEW w \in Workers, Crash(w) PROVE Leases'
  <2>1. \A v \in Workers, q \in Rows :
          stage'[v][q] # "none" => stage[v][q] # "none" /\ claimed'[v][q] = claimed[v][q]
    BY <1>6, <1>a DEF Crash, TypeOK
  <2> QED
    BY <1>6, <2>1 DEF Crash, table, Leases, Leased
<1>7. CASE UNCHANGED vars
  BY <1>7 DEF vars, table, workers, Leases, Leased
<1> QED
  BY <1>1, <1>2, <1>3, <1>4, <1>5, <1>6, <1>7 DEF Next, Work

(* A step of one worker keeps the chances of a row if what it adds to them  *)
(* and to the effects it takes elsewhere or pays for with a fault.          *)
LEMMA Balance ==
  ASSUME TypeOK, TypeOK', NEW w \in Workers, NEW r \in Rows, Chance(r),
         \A v \in Workers : v # w => stage'[v][r] = stage[v][r],
         effects'[r] + One(w \in AtWork(r)') + One(Open(r)') + faults
           <= effects[r] + One(w \in AtWork(r)) + One(Open(r)) + faults'
  PROVE  Chance(r)'
<1> DEFINE others == AtWork(r) \ {w}
<1>1. AtWork(r)' \ {w} = others
  BY DEF AtWork
<1>2. IsFiniteSet(others)
  BY FS_RemoveElement DEF Chance
<1>3. Cardinality(others) \in Nat
  BY <1>2, FS_CardinalityType
<1>4. Cardinality(AtWork(r)) = Cardinality(others) + One(w \in AtWork(r))
  <2>1. CASE w \in AtWork(r)
    <3>1. AtWork(r) = others \cup {w}
      BY <2>1
    <3>2. Cardinality(others \cup {w}) = Cardinality(others) + 1
      BY <1>2, FS_AddElement
    <3>3. One(w \in AtWork(r)) = 1
      BY <2>1 DEF One
    <3> HIDE DEF others
    <3> QED
      BY <3>1, <3>2, <3>3
  <2>2. CASE w \notin AtWork(r)
    <3>1. AtWork(r) = others /\ One(w \in AtWork(r)) = 0
      BY <2>2 DEF One
    <3> HIDE DEF others
    <3> QED
      BY <1>3, <3>1
  <2> QED
    BY <2>1, <2>2
<1>5. IsFiniteSet(AtWork(r)') /\ Cardinality(AtWork(r)') = Cardinality(others) + One(w \in AtWork(r)')
  <2>1. CASE w \in AtWork(r)'
    <3>1. AtWork(r)' = others \cup {w}
      BY <1>1, <2>1
    <3>2. IsFiniteSet(others \cup {w}) /\ Cardinality(others \cup {w}) = Cardinality(others) + 1
      BY <1>2, FS_AddElement
    <3>3. One(w \in AtWork(r)') = 1
      BY <2>1 DEF One
    <3> HIDE DEF others
    <3> QED
      BY <3>1, <3>2, <3>3
  <2>2. CASE w \notin AtWork(r)'
    <3>1. AtWork(r)' = others /\ One(w \in AtWork(r)') = 0
      BY <1>1, <2>2 DEF One
    <3> HIDE DEF others
    <3> QED
      BY <1>2, <1>3, <3>1
  <2> QED
    BY <2>1, <2>2
<1>6. /\ effects[r] \in Nat /\ effects'[r] \in Nat /\ faults \in Nat /\ faults' \in Nat
      /\ One(w \in AtWork(r)) \in Nat /\ One(w \in AtWork(r)') \in Nat
      /\ One(Open(r)) \in Nat /\ One(Open(r)') \in Nat
  BY FaultBound DEF TypeOK, One
<1>7. effects[r] + Cardinality(AtWork(r)) + One(Open(r)) <= 1 + faults
  BY DEF Chance
<1>8. effects'[r] + Cardinality(AtWork(r)') + One(Open(r)') <= 1 + faults'
  <2> HIDE DEF others
  <2> QED
    BY <1>3, <1>4, <1>5, <1>6, <1>7
<1> QED
  BY <1>5, <1>8 DEF Chance

(* Steps that touch neither a row nor anyone at it.                         *)
LEMMA ChanceFrame ==
  ASSUME TypeOK, TypeOK', NEW r \in Rows, Chance(r), faults' >= faults,
         effects'[r] = effects[r], Open(r)' => Open(r),
         \A w \in Workers : stage'[w][r] = stage[w][r]
  PROVE  Chance(r)'
<1>1. AtWork(r)' = AtWork(r)
  BY DEF AtWork
<1>2. Cardinality(AtWork(r)) \in Nat
  BY FS_CardinalityType DEF Chance
<1>3. One(Open(r)') <= One(Open(r)) /\ One(Open(r)) \in Nat /\ One(Open(r)') \in Nat
  BY DEF One
<1>4. effects[r] \in Nat /\ faults \in Nat /\ faults' \in Nat
  BY FaultBound DEF TypeOK
<1>5. effects[r] + Cardinality(AtWork(r)) + One(Open(r)) <= 1 + faults
  BY DEF Chance
<1>6. effects'[r] + Cardinality(AtWork(r)) + One(Open(r)') <= 1 + faults'
  BY <1>2, <1>3, <1>4, <1>5
<1> QED
  BY <1>1, <1>6 DEF Chance

(* Who has a row in hand, keeps it, and nobody else gets it.                *)
LEMMA InHandFrame ==
  ASSUME NEW r \in Rows, tries'[r] = tries[r],
         \A w \in Workers : (stage'[w][r] # "none" <=> stage[w][r] # "none") /\
                            (stage[w][r] # "none" => claimed'[w][r] = claimed[w][r])
  PROVE  InHand(r)' <=> InHand(r)
BY DEF InHand

LEMMA FaultsGrow == TypeOK /\ [Next]_vars => faults' >= faults
<1> SUFFICES ASSUME TypeOK, [Next]_vars PROVE faults' >= faults
  OBVIOUS
<1>1. faults \in Nat
  BY FaultBound DEF TypeOK
<1>2. faults' = faults \/ faults' = faults + 1
  BY DEF Next, Work, Claim, Redeliver, Recover, Act, Complete, Fail, Fails, Crash, LeaseEnds,
         SlowWorker, Fault, vars
<1> QED
  BY <1>1, <1>2

(* Whoever takes rows has one chance at each instead of the claim that was  *)
(* open, or, of an event that another has in hand, at the price of a fault. *)
LEMMA ChanceStep == QueueInv /\ ChanceInv /\ [Next]_vars => \A r \in Rows : Chance(r)'
<1> SUFFICES ASSUME QueueInv, ChanceInv, [Next]_vars, NEW r \in Rows PROVE Chance(r)'
  OBVIOUS
<1>a. TypeOK /\ TypeOK' /\ Chance(r) /\ faults' >= faults /\ Claims
  BY TypeStep, FaultsGrow DEF QueueInv, ChanceInv
<1>b. /\ effects[r] \in Nat /\ faults \in Nat /\ faults' \in Nat /\ tries[r] \in Nat
      /\ \A P \in BOOLEAN : One(P) \in {0, 1}
  BY <1>a, FaultBound DEF TypeOK, One
<1>0. ASSUME NEW w \in Workers, NEW S \in SUBSET Rows, Take(w, S),
             r \in S => Open(r) \/ faults' = faults + 1,
             \A q \in S : status[q] = "queued" \/ ~Leased
      PROVE  Chance(r)'
  <2>1. /\ status'[r] = IF r \in S THEN "held" ELSE status[r]
        /\ tries'[r] = IF r \in S THEN tries[r] + 1 ELSE tries[r]
        /\ expired' = expired /\ effects' = effects
    BY <1>0 DEF Take
  <2>2. /\ stage[w][r] = "none"
        /\ stage'[w][r] = IF r \in S THEN "claimed" ELSE "none"
        /\ claimed'[w][r] = IF r \in S THEN tries[r] + 1 ELSE 0
        /\ \A v \in Workers : v # w => stage'[v][r] = stage[v][r] /\ claimed'[v][r] = claimed[v][r]
    BY <1>0, <1>a DEF Take, Idle, TypeOK
  <2>3. CASE r \in S
    <3>1. InHand(r)'
      BY <2>1, <2>2, <2>3 DEF InHand
    <3>2. ~expired[r]
      BY <1>0, <2>3 DEF ChanceInv, Leases
    <3>3. ~Open(r)'
      BY <2>1, <2>3, <3>1, <3>2 DEF Open
    <3>4. w \in AtWork(r)' /\ w \notin AtWork(r)
      BY <2>2, <2>3 DEF AtWork
    <3>5. One(w \in AtWork(r)') = 1 /\ One(w \in AtWork(r)) = 0 /\ One(Open(r)') = 0
      BY <3>3, <3>4 DEF One
    <3>6. One(Open(r)) = 1 \/ (faults' = faults + 1 /\ One(Open(r)) \in {0, 1})
      BY <1>0, <2>3 DEF One
    <3>7. effects'[r] + One(w \in AtWork(r)') + One(Open(r)') + faults
            <= effects[r] + One(w \in AtWork(r)) + One(Open(r)) + faults'
      BY <1>a, <1>b, <2>1, <3>5, <3>6
    <3> QED
      BY <1>a, <2>2, <3>7, Balance
  <2>4. CASE r \notin S
    <3>1. InHand(r)' <=> InHand(r)
      BY <2>1, <2>2, <2>4, InHandFrame
    <3> QED
      BY <1>a, <2>1, <2>2, <2>4, <3>1, ChanceFrame DEF Open
  <2> QED
    BY <2>3, <2>4
<1>1. ASSUME NEW w \in Workers, Claim(w) PROVE Chance(r)'
  <2>1. PICK S \in SUBSET {q \in Rows : Claimable(q)} : Take(w, S)
    BY <1>1 DEF Claim
  <2> QED
    BY <1>0, <2>1 DEF Claimable, Open
<1>2. ASSUME NEW w \in Workers, Redeliver(w) PROVE Chance(r)'
  <2>1. PICK q \in Rows : /\ status[q] = "held" /\ Take(w, {q})
                          /\ IF InHand(q) THEN Fault ELSE UNCHANGED faults
    BY <1>2 DEF Redeliver
  <2>2. ~Leased
    BY <1>2 DEF Redeliver, Leased
  <2>3. Open(q) \/ faults' = faults + 1
    BY <2>1 DEF Open, Fault
  <2> QED
    BY <1>0, <2>1, <2>2, <2>3
<1>3. ASSUME NEW w \in Workers, Recover(w) PROVE Chance(r)'
  <2>1. /\ status'[r] = IF r \in Recoverable THEN "queued" ELSE status[r]
        /\ expired'[r] = IF r \in Recoverable THEN FALSE ELSE expired[r]
        /\ UNCHANGED <<tries, claimed, stage, effects>>
    BY <1>3 DEF Recover, workers
  <2>2. InHand(r)' <=> InHand(r)
    BY <2>1, InHandFrame
  <2>3. Open(r)' => Open(r)
    BY <2>1, <2>2 DEF Open, Recoverable
  <2> QED
    BY <1>a, <2>1, <2>3, ChanceFrame
<1>4. ASSUME NEW q \in Rows, LeaseEnds(q) \/ SlowWorker(q) PROVE Chance(r)'
  <2>1. UNCHANGED <<status, tries, claimed, stage, effects>> /\ expired' = [expired EXCEPT ![q] = TRUE]
    BY <1>4 DEF LeaseEnds, SlowWorker, Expire, workers
  <2>2. InHand(r)' <=> InHand(r)
    BY <2>1, InHandFrame
  <2>3. CASE q # r \/ LeaseEnds(q)
    <3>1. Open(r)' => Open(r)
      BY <2>1, <2>2, <2>3, <1>a DEF Open, LeaseEnds, Expire, TypeOK
    <3> QED
      BY <1>a, <2>1, <3>1, ChanceFrame
  <2>4. CASE SlowWorker(q)
    <3>1. faults' = faults + 1 /\ AtWork(r)' = AtWork(r) /\ effects'[r] = effects[r]
      BY <2>1, <2>4 DEF SlowWorker, Fault, AtWork
    <3>2. effects[r] + Cardinality(AtWork(r)) + One(Open(r)) <= 1 + faults
      BY <1>a DEF Chance
    <3>3. Cardinality(AtWork(r)) \in Nat
      BY <1>a, FS_CardinalityType DEF Chance
    <3>4. One(Open(r)) \in {0, 1} /\ One(Open(r)') \in {0, 1}
      BY DEF One
    <3>5. effects'[r] + Cardinality(AtWork(r)') + One(Open(r)') <= 1 + faults'
      BY <1>b, <3>1, <3>2, <3>3, <3>4
    <3> QED
      BY <1>a, <3>1, <3>5 DEF Chance
  <2> QED
    BY <1>4, <2>3, <2>4
<1>5. ASSUME NEW w \in Workers, NEW q \in Rows, q # r,
             Act(w, q) \/ Fails(w, q) \/ Complete(w, q) \/ Fail(w, q)
      PROVE  Chance(r)'
  <2>1. \A v \in Workers : stage'[v][r] = stage[v][r] /\ claimed'[v][r] = claimed[v][r]
    <3>1. Leave(w, q) \/ \E s \in {"acted", "failing"} : Enter(w, q, s)
      BY <1>5 DEF Act, Fails, Complete, Fail
    <3>2. CASE Leave(w, q)
      BY <1>5, <1>a, <3>2 DEF Leave, TypeOK
    <3>3. ASSUME NEW s \in {"acted", "failing"}, Enter(w, q, s)
          PROVE  \A v \in Workers : stage'[v][r] = stage[v][r] /\ claimed'[v][r] = claimed[v][r]
      BY <1>5, <1>a, <3>3 DEF Enter, TypeOK
    <3> QED
      BY <3>1, <3>2, <3>3
  <2>2. effects'[r] = effects[r] /\ tries'[r] = tries[r]
    BY <1>5, <1>a DEF Act, Fails, Complete, Fail, Mark, table, TypeOK
  <2>3. status'[r] = status[r] /\ expired'[r] = expired[r]
    BY <1>5, <1>a DEF Act, Fails, Complete, Fail, Mark, table, TypeOK
  <2>4. InHand(r)' <=> InHand(r)
    BY <2>1, <2>2, InHandFrame
  <2> QED
    BY <1>a, <2>1, <2>2, <2>3, <2>4, ChanceFrame DEF Open
<1>6. ASSUME NEW w \in Workers, Act(w, r) PROVE Chance(r)'
  <2>1. /\ stage[w][r] = "claimed" /\ stage' = [stage EXCEPT ![w][r] = "acted"]
        /\ effects' = [effects EXCEPT ![r] = effects[r] + 1]
        /\ UNCHANGED <<claimed, status, expired, tries, faults>>
    BY <1>6 DEF Act, At, Enter, table
  <2>2. stage'[w][r] = "acted" /\ effects'[r] = effects[r] + 1
    BY <2>1, <1>a DEF TypeOK
  <2>3. \A v \in Workers : v # w => stage'[v][r] = stage[v][r]
    BY <2>1, <1>a DEF TypeOK
  <2>4. InHand(r)' <=> InHand(r)
    BY <2>1, <2>2, <2>3, InHandFrame
  <2>5. One(Open(r)') = One(Open(r)) /\ One(Open(r)) \in {0, 1}
    BY <2>1, <2>4 DEF Open, One
  <2>6. One(w \in AtWork(r)) = 1 /\ One(w \in AtWork(r)') = 0
    BY <2>1, <2>2 DEF AtWork, One
  <2>7. effects'[r] + One(w \in AtWork(r)') + One(Open(r)') + faults
          <= effects[r] + One(w \in AtWork(r)) + One(Open(r)) + faults'
    BY <1>b, <2>1, <2>2, <2>5, <2>6
  <2> QED
    BY <1>a, <2>3, <2>7, Balance
<1>7. ASSUME NEW w \in Workers, Fails(w, r) PROVE Chance(r)'
  <2>1. /\ stage[w][r] \in {"claimed", "acted"} /\ stage' = [stage EXCEPT ![w][r] = "failing"]
        /\ UNCHANGED <<claimed, status, expired, tries>> /\ faults' = faults + 1
    BY <1>7 DEF Fails, At, Enter, Fault, table
  <2>2. stage'[w][r] = "failing" /\ \A v \in Workers : v # w => stage'[v][r] = stage[v][r]
    BY <2>1, <1>a DEF TypeOK
  <2>3. effects'[r] = effects[r] \/ (effects'[r] = effects[r] + 1 /\ stage[w][r] = "claimed")
    <3>1. effects' = effects \/ (stage[w][r] # "acted" /\ effects' = [effects EXCEPT ![r] = effects[r] + 1])
      BY <1>7 DEF Fails
    <3> QED
      BY <2>1, <3>1, <1>a DEF TypeOK
  <2>4. InHand(r)' <=> InHand(r)
    BY <2>1, <2>2, InHandFrame
  <2>5. One(Open(r)') = One(Open(r)) /\ One(Open(r)) \in {0, 1}
    BY <2>1, <2>4 DEF Open, One
  <2>6. One(w \in AtWork(r)) = One(stage[w][r] = "claimed") /\ One(w \in AtWork(r)') = 1
    BY <2>1, <2>2 DEF AtWork, One
  <2>7. One(stage[w][r] = "claimed") = IF stage[w][r] = "claimed" THEN 1 ELSE 0
    BY DEF One
  <2>8. effects'[r] + One(w \in AtWork(r)') + One(Open(r)') + faults
          <= effects[r] + One(w \in AtWork(r)) + One(Open(r)) + faults'
    BY <1>b, <2>1, <2>3, <2>5, <2>6, <2>7
  <2> QED
    BY <1>a, <2>2, <2>8, Balance
<1>8. ASSUME NEW w \in Workers, Complete(w, r) PROVE Chance(r)'
  <2>1. stage[w][r] = IF Transactional THEN "claimed" ELSE "acted"
    BY <1>8 DEF Complete, At
  <2>2. effects'[r] = effects[r] + One(Transactional)
    BY <1>8, <1>a, <1>b DEF Complete, One, TypeOK
  <2>3. \A v \in Workers : v # w => stage'[v][r] = stage[v][r] /\ claimed'[v][r] = claimed[v][r]
    BY <1>8, <1>a DEF Complete, Enter, Leave, TypeOK
  <2>4. \/ stage'[w][r] = "none" /\ faults' = faults
        \/ stage'[w][r] = "failing" /\ faults' = faults + 1
    BY <1>8, <1>a DEF Complete, Enter, Leave, Fault, TypeOK
  <2>5. Open(r)' => Open(r)
    <3>1. CASE Mine(w, r)
      <4>1. status'[r] = "done"
        BY <1>8, <1>a, <3>1 DEF Complete, Mark, TypeOK
      <4> QED
        BY <4>1 DEF Open
    <3>2. CASE ~Mine(w, r)
      <4>1. UNCHANGED <<status, expired, tries>>
        BY <1>8, <3>2 DEF Complete
      <4>2. status[r] = "held" => claimed[w][r] # tries[r]
        BY <2>1, <3>2 DEF Mine, ChanceInv, Leases
      <4>3. status[r] = "held" /\ InHand(r) => InHand(r)'
        BY <2>3, <4>1, <4>2 DEF InHand
      <4> QED
        BY <4>1, <4>3 DEF Open
    <3> QED
      BY <3>1, <3>2
  <2>6. One(Open(r)') <= One(Open(r)) /\ One(Open(r)) \in {0, 1} /\ One(Open(r)') \in {0, 1}
    BY <2>5 DEF One
  <2>7. One(w \in AtWork(r)) = One(Transactional) /\ One(Transactional) \in {0, 1}
    BY <2>1 DEF AtWork, One
  <2>8. One(w \in AtWork(r)') + faults = faults'
    BY <1>b, <2>4 DEF AtWork, One
  <2>9. One(w \in AtWork(r)') \in {0, 1}
    BY DEF One
  <2>10. effects'[r] + One(w \in AtWork(r)') + One(Open(r)') + faults
           <= effects[r] + One(w \in AtWork(r)) + One(Open(r)) + faults'
    BY <1>b, <2>2, <2>6, <2>7, <2>8, <2>9
  <2> QED
    BY <1>a, <2>3, <2>10, Balance
<1>9. ASSUME NEW w \in Workers, Fail(w, r) PROVE Chance(r)'
  <2>1. stage[w][r] = "failing" /\ stage' = [stage EXCEPT ![w][r] = "none"]
    BY <1>9 DEF Fail, At, Leave
  <2>2. stage'[w][r] = "none" /\ \A v \in Workers : v # w => stage'[v][r] = stage[v][r]
    BY <2>1, <1>a DEF TypeOK
  <2>3. One(w \in AtWork(r)) = 1 /\ One(w \in AtWork(r)') = 0
    BY <2>1, <2>2 DEF AtWork, One
  <2>4. One(Open(r)) \in {0, 1} /\ One(Open(r)') \in {0, 1}
    BY DEF One
  <2>5. effects' = effects /\ faults' = faults
    BY <1>9 DEF Fail
  <2>6. effects'[r] + One(w \in AtWork(r)') + One(Open(r)') + faults
          <= effects[r] + One(w \in AtWork(r)) + One(Open(r)) + faults'
    BY <1>b, <2>3, <2>4, <2>5
  <2> QED
    BY <1>a, <2>2, <2>6, Balance
<1>10. ASSUME NEW w \in Workers, Crash(w) PROVE Chance(r)'
  <2>1. /\ stage'[w][r] = "none" /\ \A v \in Workers : v # w => stage'[v][r] = stage[v][r]
        /\ faults' = faults + 1 /\ effects' = effects
    BY <1>10, <1>a DEF Crash, Fault, TypeOK
  <2>2. One(w \in AtWork(r)') = 0 /\ One(w \in AtWork(r)) \in {0, 1}
    BY <2>1 DEF AtWork, One
  <2>3. One(Open(r)) \in {0, 1} /\ One(Open(r)') \in {0, 1}
    BY DEF One
  <2>4. effects'[r] + One(w \in AtWork(r)') + One(Open(r)') + faults
          <= effects[r] + One(w \in AtWork(r)) + One(Open(r)) + faults'
    BY <1>b, <2>1, <2>2, <2>3
  <2> QED
    BY <1>a, <2>1, <2>4, Balance
<1>11. CASE UNCHANGED vars
  BY <1>11, <1>a, ChanceFrame DEF vars, table, workers, Open, InHand
<1> QED
  BY <1>1, <1>2, <1>3, <1>4, <1>5, <1>6, <1>7, <1>8, <1>9, <1>10, <1>11 DEF Next, Work

(* jobs.ts, webhooks.ts, emails.ts, publisher.ts and the inboxes: a row has *)
(* its effect a second time only after a fault, a third time after two, and *)
(* so on, whatever workers, leases, recoveries and redeliveries there are.  *)
THEOREM DuplicatesAlwaysCostFaults == Spec => []DuplicatesCostFaults
<1>1. Init => ChanceInv
  <2> SUFFICES ASSUME Init PROVE ChanceInv
    OBVIOUS
  <2>1. Leases
    BY DEF Init, Leases
  <2>2. ASSUME NEW r \in Rows PROVE Chance(r)
    <3>1. AtWork(r) = {} /\ effects[r] = 0 /\ faults = 0
      BY DEF Init, AtWork
    <3>2. IsFiniteSet(AtWork(r)) /\ Cardinality(AtWork(r)) = 0
      BY <3>1, FS_EmptySet
    <3> QED
      BY <3>1, <3>2 DEF Chance, One
  <2> QED
    BY <2>1, <2>2 DEF ChanceInv
<1>2. QueueInv /\ ChanceInv /\ [Next]_vars => ChanceInv'
  BY LeasesStep, ChanceStep DEF ChanceInv
<1>3. QueueInv /\ ChanceInv => DuplicatesCostFaults
  <2> SUFFICES ASSUME QueueInv, ChanceInv, NEW r \in Rows PROVE effects[r] <= 1 + faults
    BY DEF DuplicatesCostFaults
  <2>1. Cardinality(AtWork(r)) \in Nat /\ One(Open(r)) \in {0, 1}
    BY FS_CardinalityType DEF ChanceInv, Chance, One
  <2>2. effects[r] \in Nat /\ faults \in Nat
    BY FaultBound DEF QueueInv, TypeOK
  <2>3. effects[r] + Cardinality(AtWork(r)) + One(Open(r)) <= 1 + faults
    BY DEF ChanceInv, Chance
  <2> QED
    BY <2>1, <2>2, <2>3
<1> QED
  BY <1>1, <1>2, <1>3, Inductive, PTL DEF Spec

-----------------------------------------------------------------------------
(* The refinement.                                                          *)

Kept == [Promise!Next]_(Promise!vars)
Delivered == {r \in Rows : effects[r] > 0}
State == [r \in Rows |-> CASE status[r] = "done" -> "acknowledged"
                            [] status[r] = "dead" -> "dropped"
                            [] OTHER -> "open"]

LEMMA Stutter ==
  ASSUME kind' = kind, status' = status \/ State' = State, tries' = tries,
         effects' = effects \/ Delivered' = Delivered
  PROVE  Kept
<1>1. State' = State
  BY DEF State
<1>2. Delivered' = Delivered
  BY DEF Delivered
<1> QED
  BY <1>1, <1>2 DEF Kept, Promise!vars, State, Delivered

(* What happens to one row is one of its steps.                             *)
LEMMA RowStep ==
  ASSUME NEW r \in Rows, kind' = kind, tries' = tries, tries[r] > 0,
         Delivered' \in {Delivered, Delivered \cup {r}},
         \/ State' = State
         \/ /\ State[r] = "open" \/ kind # "outbox"
            /\ \/ State' = [State EXCEPT ![r] = "acknowledged"] /\ r \in Delivered'
               \/ /\ State' = [State EXCEPT ![r] = "dropped"] /\ tries[r] >= MaxTries
                  /\ Delivered' = Delivered
               \/ /\ State' = [State EXCEPT ![r] = "open"] /\ Delivered' = Delivered
                  /\ kind # "outbox"
  PROVE  Kept
<1>1. CASE State' = State
  <2>1. CASE Delivered' = Delivered
    BY <1>1, <2>1, Stutter
  <2>2. CASE Delivered' = Delivered \cup {r}
    <3>1. Promise!Deliver(r)
      BY <1>1, <2>2 DEF Promise!Deliver, State, Delivered
    <3> QED
      BY <3>1 DEF Kept, Promise!Next
  <2> QED
    BY <2>1, <2>2
<1>2. ASSUME State[r] = "open" \/ kind # "outbox",
             State' = [State EXCEPT ![r] = "acknowledged"] /\ r \in Delivered'
      PROVE  Kept
  <2>1. Promise!Acknowledge(r)
    BY <1>2 DEF Promise!Acknowledge, Promise!Movable, State, Delivered
  <2> QED
    BY <2>1 DEF Kept, Promise!Next
<1>3. ASSUME State[r] = "open" \/ kind # "outbox",
             State' = [State EXCEPT ![r] = "dropped"] /\ tries[r] >= MaxTries,
             Delivered' = Delivered
      PROVE  Kept
  <2>1. Promise!Drop(r)
    BY <1>3 DEF Promise!Drop, Promise!Movable, State, Delivered
  <2> QED
    BY <2>1 DEF Kept, Promise!Next
<1>4. ASSUME kind # "outbox", State' = [State EXCEPT ![r] = "open"], Delivered' = Delivered
      PROVE  Kept
  <2>1. Promise!Reopen(r)
    BY <1>4 DEF Promise!Reopen, State, Delivered
  <2> QED
    BY <2>1 DEF Kept, Promise!Next
<1> QED
  BY <1>1, <1>2, <1>3, <1>4

LEMMA PromiseStep == QueueInv /\ [Next]_vars => Kept
<1> SUFFICES ASSUME QueueInv, [Next]_vars PROVE Kept
  OBVIOUS
<1>a. TypeOK
  BY DEF QueueInv
<1>b. QueueInv'
  BY InvStep
<1> USE <1>a
<1>0. ASSUME NEW w \in Workers, NEW S \in SUBSET Rows, Take(w, S),
             \A r \in S : status[r] \in {"queued", "held"}
      PROVE  Kept
  <2>1. /\ status' = [r \in Rows |-> IF r \in S THEN "held" ELSE status[r]]
        /\ tries' = [r \in Rows |-> IF r \in S THEN tries[r] + 1 ELSE tries[r]]
    BY <1>0 DEF Take
  <2>2. State' = State /\ S \in SUBSET {r \in Rows : State[r] = "open"}
    BY <1>0, <2>1 DEF State
  <2>3. kind' = kind /\ Delivered' = Delivered
    BY <1>0 DEF Take, Delivered
  <2>4. Promise!Try
    BY <2>1, <2>2, <2>3 DEF Promise!Try, State, Delivered
  <2> QED
    BY <2>4 DEF Kept, Promise!Next
<1>1. ASSUME NEW w \in Workers, Claim(w) PROVE Kept
  <2>1. PICK S \in SUBSET {r \in Rows : Claimable(r)} : Take(w, S)
    BY <1>1 DEF Claim
  <2>2. \A r \in S : status[r] = "queued"
    BY DEF Claimable
  <2> QED
    BY <1>0, <2>1, <2>2
<1>1a. ASSUME NEW w \in Workers, Redeliver(w) PROVE Kept
  <2>1. PICK r \in Rows : status[r] = "held" /\ Take(w, {r})
    BY <1>1a DEF Redeliver
  <2> QED
    BY <1>0, <2>1
<1>2. ASSUME NEW w \in Workers, Recover(w) PROVE Kept
  <2>1. State' = State
    BY <1>2 DEF Recover, Recoverable, State
  <2> QED
    BY <1>2, <2>1, Stutter DEF Recover
<1>3. ASSUME NEW r \in Rows, LeaseEnds(r) \/ SlowWorker(r) PROVE Kept
  BY <1>3, Stutter DEF LeaseEnds, SlowWorker, Expire
<1>4. ASSUME NEW w \in Workers, NEW r \in Rows, Act(w, r) PROVE Kept
  <2>1. stage[w][r] = "claimed" /\ tries[r] > 0
    BY <1>4 DEF Act, At, QueueInv, Claims, TypeOK
  <2>2. Delivered' = Delivered \cup {r}
    BY <1>4 DEF Act, Delivered, TypeOK
  <2>3. kind' = kind /\ tries' = tries /\ State' = State
    BY <1>4 DEF Act, table, State
  <2> QED
    BY <2>1, <2>2, <2>3, RowStep
<1>5. ASSUME NEW w \in Workers, NEW r \in Rows, Fails(w, r) PROVE Kept
  <2>1. tries[r] > 0
    BY <1>5 DEF Fails, At, QueueInv, Claims, TypeOK
  <2>2. effects' = effects \/ effects' = [effects EXCEPT ![r] = effects[r] + 1]
    BY <1>5 DEF Fails
  <2>3. Delivered' \in {Delivered, Delivered \cup {r}}
    <3>1. CASE effects' = effects
      BY <3>1 DEF Delivered
    <3>2. CASE effects' = [effects EXCEPT ![r] = effects[r] + 1]
      BY <3>2 DEF Delivered, TypeOK
    <3> QED
      BY <2>2, <3>1, <3>2
  <2>4. kind' = kind /\ tries' = tries /\ State' = State
    BY <1>5 DEF Fails, table, State
  <2> QED
    BY <2>1, <2>3, <2>4, RowStep
<1>6. ASSUME NEW w \in Workers, NEW r \in Rows, Complete(w, r) PROVE Kept
  <2>1. tries[r] > 0
    BY <1>6 DEF Complete, At, QueueInv, Claims, TypeOK
  <2>2. kind' = kind /\ tries' = tries
    BY <1>6 DEF Complete, Mark
  <2>3. CASE Mine(w, r)
    <3>1. status' = [status EXCEPT ![r] = "done"]
      BY <1>6, <2>3 DEF Complete, Mark
    <3>2. State' = [State EXCEPT ![r] = "acknowledged"]
      BY <3>1 DEF State, TypeOK
    <3>3. kind = "outbox" => status[r] = "held"
      BY <2>3, QueueAssumption DEF Mine, QueueInv, Owners
    <3>4. State[r] = "open" \/ kind # "outbox"
      BY <3>3 DEF State
    <3>5. status'[r] = "done"
      BY <3>1 DEF TypeOK
    <3>6. r \in Delivered'
      BY <1>b, <3>5 DEF QueueInv, Done, Delivered
    <3>7. Delivered' \in {Delivered, Delivered \cup {r}}
      <4>1. CASE effects' = effects
        BY <4>1 DEF Delivered
      <4>2. CASE effects' = [effects EXCEPT ![r] = effects[r] + 1]
        BY <4>2 DEF Delivered, TypeOK
      <4> QED
        BY <1>6, <4>1, <4>2 DEF Complete
    <3> QED
      BY <2>1, <2>2, <3>2, <3>4, <3>6, <3>7, RowStep
  <2>4. CASE ~Mine(w, r)
    <3>1. status' = status /\ effects' = effects
      BY <1>6, <2>4 DEF Complete, Mine, Transactional
    <3> QED
      BY <2>2, <3>1, Stutter
  <2> QED
    BY <2>3, <2>4
<1>7. ASSUME NEW w \in Workers, NEW r \in Rows, Fail(w, r) PROVE Kept
  <2>1. stage[w][r] = "failing" /\ claimed[w][r] \in 1 .. tries[r]
    BY <1>7 DEF Fail, At, QueueInv, Claims
  <2>2. kind' = kind /\ tries' = tries /\ effects' = effects
    BY <1>7 DEF Fail, Mark, table
  <2>3. Delivered' = Delivered
    BY <2>2 DEF Delivered
  <2>4. tries[r] > 0 /\ (Exhausted(w, r) => tries[r] >= MaxTries)
    <3>1. tries[r] \in Nat /\ claimed[w][r] \in Nat
      BY DEF TypeOK
    <3>2. claimed[w][r] <= tries[r] /\ tries[r] > 0
      BY <2>1, <3>1
    <3>3. Exhausted(w, r) => claimed[w][r] >= MaxTries
      BY DEF Exhausted
    <3> QED
      BY <3>1, <3>2, <3>3, TriesBound
  <2>5. Mine(w, r) => State[r] = "open" \/ kind # "outbox"
    <3>1. Mine(w, r) /\ kind = "outbox" => status[r] = "held"
      BY QueueAssumption DEF Mine, QueueInv, Owners
    <3> QED
      BY <3>1 DEF State
  <2>6. CASE Mine(w, r) /\ Exhausted(w, r)
    <3>1. status' = [status EXCEPT ![r] = IF kind = "email" THEN "queued" ELSE "dead"]
      BY <1>7, <2>6 DEF Fail, Mark
    <3>2. CASE kind = "email"
      <4>1. State' = [State EXCEPT ![r] = "open"]
        BY <3>1, <3>2 DEF State, TypeOK
      <4>2. kind # "outbox"
        BY <3>2
      <4> QED
        BY <2>2, <2>3, <2>4, <4>1, <4>2, RowStep
    <3>3. CASE kind # "email"
      <4>1. State' = [State EXCEPT ![r] = "dropped"]
        BY <3>1, <3>3 DEF State, TypeOK
      <4> QED
        BY <2>2, <2>3, <2>4, <2>5, <2>6, <4>1, RowStep
    <3> QED
      BY <3>2, <3>3
  <2>7. CASE Mine(w, r) /\ ~Exhausted(w, r)
    <3>1. status' = [status EXCEPT ![r] = IF kind = "inbox once" THEN "held" ELSE "queued"]
      BY <1>7, <2>7 DEF Fail, Mark
    <3>2. State' = [State EXCEPT ![r] = "open"]
      BY <3>1 DEF State, TypeOK
    <3>3. CASE kind = "outbox"
      <4>1. State[r] = "open"
        BY <2>5, <2>7, <3>3
      <4>2. State' = State
        BY <3>2, <4>1 DEF State
      <4> QED
        BY <2>2, <4>2, Stutter
    <3>4. CASE kind # "outbox"
      BY <2>2, <2>3, <2>4, <3>2, <3>4, RowStep
    <3> QED
      BY <3>3, <3>4
  <2>8. CASE ~Mine(w, r)
    <3>1. status' = status
      BY <1>7, <2>8 DEF Fail, table
    <3> QED
      BY <2>2, <3>1, Stutter
  <2> QED
    BY <2>6, <2>7, <2>8
<1>8. ASSUME NEW w \in Workers, Crash(w) PROVE Kept
  BY <1>8, Stutter DEF Crash, table
<1>9. CASE UNCHANGED vars
  BY <1>9, Stutter DEF vars, table
<1> QED
  BY <1>1, <1>1a, <1>2, <1>3, <1>4, <1>5, <1>6, <1>7, <1>8, <1>9 DEF Next, Work

(* Every table keeps the promise of AtLeastOnce, and the outbox, whose      *)
(* markOutboxPublished and markOutboxFailed look at locked_by, the firm     *)
(* one: what is published or dead stays so, however slow its publishers.    *)
THEOREM TablesKeepPromise == Spec => KeepsPromise
<1>1. Init => Promise!Init
  BY DEF Init, Promise!Init
<1>2. QueueInv /\ [Next]_vars => [Promise!Next]_(Promise!vars)
  BY PromiseStep DEF Kept
<1> QED
  BY <1>1, <1>2, Inductive, PTL DEF Spec, KeepsPromise, Promise!Spec
=============================================================================
