---------------------------- MODULE LeasedQueue ----------------------------
(***************************************************************************)
(* The tables of work of the later codebase, which workers claim under a   *)
(* lease: document jobs, provider webhooks, e-mail deliveries and the      *)
(* outbox; those of the reference solution, which have no lease; and the   *)
(* inboxes of both projection-workers, which claim an event when Kafka     *)
(* delivers it and not again (reference solution), or again until it is    *)
(* processed (later codebase).                                             *)
(*                                                                         *)
(* A worker claims one row (publishers a batch), performs its effect and   *)
(* marks it, or marks it failed.  Leases that have expired are recovered   *)
(* by whoever runs.  Only the outbox looks at locked_by when it marks.     *)
(* Time is left to nondeterminism: a lease may expire while its owner is   *)
(* still at work, which counts as a fault, as do errors, lost replies and  *)
(* crashes.                                                                *)
(***************************************************************************)
EXTENDS Naturals, FiniteSets

CONSTANTS
  Kinds,       \* which of the tables
  Rows,        \* rows of the table
  Workers,     \* processes, or for e-mail overlapping runs of deliverAvailable
  Nobody,      \* locked_by IS NULL
  MaxTries,    \* attempts after which a row is given up
  MaxFaults    \* bound: faults in a behaviour

ASSUME KindsAssumption ==
  Kinds \subseteq {"job", "webhook", "email", "outbox", "unleased job", "unleased outbox",
                    "inbox", "inbox once"}

ASSUME QueueAssumption ==
  /\ Nobody \notin Workers
  /\ MaxTries \in Nat \ {0}
  /\ MaxFaults \in Nat

VARIABLES
  kind,       \* the table of this behaviour
  status,     \* status of a row
  owner,      \* locked_by
  tries,      \* attempts
  expired,    \* lease_expires_at < now()
  claimed,    \* claimed[w][r]: the attempts of r as w claimed it, 0 if it did not
  stage,      \* stage[w][r]: how far w is with it
  effects,    \* how many times the effect of r has taken place
  letters,    \* dead letters of r
  faults      \* faults so far

table == <<status, owner, tries, expired, letters>>
workers == <<claimed, stage>>
vars == <<kind, table, workers, effects, faults>>

Leased == kind \in {"job", "webhook", "email", "outbox"}
(* The effect is part of the transaction that marks the row.                *)
Transactional == kind \in {"job", "webhook", "unleased job"}
Publishing == kind \in {"outbox", "unleased outbox"}

TypeOK ==
  /\ kind \in Kinds
  /\ status \in [Rows -> {"queued", "held", "done", "dead"}]
  /\ owner \in [Rows -> Workers \cup {Nobody}]
  /\ tries \in [Rows -> Nat]
  /\ expired \in [Rows -> BOOLEAN]
  /\ claimed \in [Workers -> [Rows -> Nat]]
  /\ stage \in [Workers -> [Rows -> {"none", "claimed", "acted", "failing"}]]
  /\ effects \in [Rows -> Nat]
  /\ letters \in [Rows -> Nat]
  /\ faults \in 0 .. MaxFaults
  /\ kind = "email" => \A r \in Rows : tries[r] <= MaxTries

Init ==
  /\ kind \in Kinds
  /\ status = [r \in Rows |-> "queued"]
  /\ owner = [r \in Rows |-> Nobody]
  /\ tries = [r \in Rows |-> 0]
  /\ expired = [r \in Rows |-> FALSE]
  /\ claimed = [w \in Workers |-> [r \in Rows |-> 0]]
  /\ stage = [w \in Workers |-> [r \in Rows |-> "none"]]
  /\ effects = [r \in Rows |-> 0]
  /\ letters = [r \in Rows |-> 0]
  /\ faults = 0

Fault == faults < MaxFaults /\ faults' = faults + 1
Idle(w) == \A r \in Rows : stage[w][r] = "none"

-----------------------------------------------------------------------------
(* Leases.                                                                  *)

ClaimAnything(r) ==  \* mutant: the attempts of an e-mail are not looked at
  status[r] = "queued"

Claimable(r) ==
  /\ status[r] = "queued"
  /\ kind = "email" => tries[r] < MaxTries

Take(w, S) ==
  /\ Idle(w)
  /\ status' = [r \in Rows |-> IF r \in S THEN "held" ELSE status[r]]
  /\ owner' = [r \in Rows |-> IF r \in S THEN w ELSE owner[r]]
  /\ tries' = [r \in Rows |-> IF r \in S THEN tries[r] + 1 ELSE tries[r]]
  /\ claimed' = [claimed EXCEPT ![w] = [r \in Rows |-> IF r \in S THEN tries[r] + 1 ELSE 0]]
  /\ stage' = [stage EXCEPT ![w] = [r \in Rows |-> IF r \in S THEN "claimed" ELSE "none"]]
  /\ UNCHANGED <<kind, expired, letters, effects>>

Claim(w) ==
  /\ \E S \in SUBSET {r \in Rows : Claimable(r)} :
        /\ S # {} /\ (Publishing \/ Cardinality(S) = 1)
        /\ Take(w, S)
  /\ UNCHANGED faults

(* The row is in the hands of the worker that claimed it last.              *)
InHand(r) == \E w \in Workers : stage[w][r] # "none" /\ claimed[w][r] = tries[r]

(* Kafka delivers an event until its offset is committed, to another        *)
(* worker even while one has it in hand, which counts as a fault.  The      *)
(* later codebase claims whatever is not processed yet.                     *)
Redeliver(w) ==
  /\ kind = "inbox"
  /\ \E r \in Rows :
        /\ status[r] = "held"
        /\ Take(w, {r})
        /\ IF InHand(r) THEN Fault ELSE UNCHANGED faults

Expire(r) ==
  /\ Leased /\ status[r] = "held" /\ ~expired[r]
  /\ expired' = [expired EXCEPT ![r] = TRUE]
  /\ UNCHANGED <<kind, status, owner, tries, letters, workers, effects>>

LeaseEnds(r) == ~InHand(r) /\ Expire(r) /\ UNCHANGED faults
SlowWorker(r) == InHand(r) /\ Expire(r) /\ Fault

RecoverUnexpired == {r \in Rows : status[r] = "held"}  \* mutant: the lease is not looked at
RecoverNone == {}  \* mutant: expired leases stay

Recoverable == {r \in Rows : status[r] = "held" /\ expired[r]}

Recover(w) ==
  /\ Idle(w) /\ Recoverable # {}
  /\ status' = [r \in Rows |-> IF r \in Recoverable THEN "queued" ELSE status[r]]
  /\ owner' = [r \in Rows |-> IF r \in Recoverable THEN Nobody ELSE owner[r]]
  /\ expired' = [r \in Rows |-> IF r \in Recoverable THEN FALSE ELSE expired[r]]
  /\ UNCHANGED <<kind, tries, letters, workers, effects, faults>>

-----------------------------------------------------------------------------
(* A worker at its rows, one after the other.                               *)

Turn(w, r) == \A q \in Rows \ {r} : stage[w][q] \in {"none", "claimed"}
At(w, r, s) == Turn(w, r) /\ stage[w][r] = s
Enter(w, r, s) == stage' = [stage EXCEPT ![w][r] = s] /\ UNCHANGED claimed
Leave(w, r) ==
  /\ stage' = [stage EXCEPT ![w][r] = "none"]
  /\ claimed' = [claimed EXCEPT ![w][r] = 0]

(* The message is sent or published.                                        *)
Act(w, r) ==
  /\ ~Transactional
  /\ At(w, r, "claimed")
  /\ effects' = [effects EXCEPT ![r] = @ + 1]
  /\ Enter(w, r, "acted")
  /\ UNCHANGED <<kind, table, faults>>

(* Effect or mark fails, or the worker believes so.                         *)
Fails(w, r) ==
  /\ \/ At(w, r, "claimed")
     \/ At(w, r, "acted")
  /\ effects' \in {effects} \cup
       IF Transactional \/ stage[w][r] = "acted" THEN {}
       ELSE {[effects EXCEPT ![r] = @ + 1]}
  /\ Enter(w, r, "failing")
  /\ Fault
  /\ UNCHANGED <<kind, table>>

MineAnyway(w, r) == TRUE  \* mutant: the outbox is marked whoever owns the row

(* markOutboxPublished and markOutboxFailed look at locked_by, no other.    *)
Mine(w, r) == kind = "outbox" => owner[r] = w

Mark(r, s) ==
  /\ status' = [status EXCEPT ![r] = s]
  /\ owner' = [owner EXCEPT ![r] = Nobody]
  /\ expired' = [expired EXCEPT ![r] = FALSE]
  /\ UNCHANGED tries

Complete(w, r) ==
  /\ At(w, r, IF Transactional THEN "claimed" ELSE "acted")
  /\ IF Mine(w, r) THEN Mark(r, "done") ELSE UNCHANGED <<status, owner, expired, tries>>
  /\ effects' = IF Transactional THEN [effects EXCEPT ![r] = @ + 1] ELSE effects
  /\ \/ Leave(w, r) /\ UNCHANGED faults
     \/ Enter(w, r, "failing") /\ Fault
  /\ UNCHANGED <<kind, letters>>

GiveUpEarly(w, r) ==  \* mutant: one attempt too few
  claimed[w][r] + 1 >= MaxTries /\ kind \notin {"unleased outbox", "inbox", "inbox once"}

Exhausted(w, r) ==
  claimed[w][r] >= MaxTries /\ kind \notin {"unleased outbox", "inbox", "inbox once"}

(* An e-mail that is given up stays failed, but is not claimed again; nor   *)
(* is an event of "inbox once", whose row stays in the way.                 *)
Fail(w, r) ==
  /\ At(w, r, "failing")
  /\ \/ /\ Mine(w, r) /\ Exhausted(w, r)
        /\ Mark(r, IF kind = "email" THEN "queued" ELSE "dead")
        /\ letters' = [letters EXCEPT ![r] = @ + 1]
     \/ /\ Mine(w, r) /\ ~Exhausted(w, r)
        /\ Mark(r, IF kind = "inbox once" THEN "held" ELSE "queued")
        /\ UNCHANGED letters
     \/ /\ ~Mine(w, r)
        /\ UNCHANGED table
  /\ Leave(w, r)
  /\ UNCHANGED <<kind, effects, faults>>

(* The worker dies, or its loop ends on an error of the database; another   *)
(* takes its place.                                                         *)
Crash(w) ==
  /\ ~Idle(w)
  /\ claimed' = [claimed EXCEPT ![w] = [r \in Rows |-> 0]]
  /\ stage' = [stage EXCEPT ![w] = [r \in Rows |-> "none"]]
  /\ Fault
  /\ UNCHANGED <<kind, table, effects>>

-----------------------------------------------------------------------------
Work(w) ==
  \/ Claim(w) \/ Redeliver(w) \/ Recover(w)
  \/ \E r \in Rows : Act(w, r) \/ Complete(w, r) \/ Fail(w, r)

Next ==
  \/ \E w \in Workers : Work(w) \/ Crash(w) \/ \E r \in Rows : Fails(w, r)
  \/ \E r \in Rows : LeaseEnds(r) \/ SlowWorker(r)

Spec == Init /\ [][Next]_vars

(* Some worker goes on while there is something to do, and the lease of a   *)
(* row that nobody has in hand ends.                                        *)
Going == (\E w \in Workers : Work(w)) \/ \E r \in Rows : LeaseEnds(r)

FairSpec == Spec /\ WF_vars(Going)

-----------------------------------------------------------------------------
(* publisher.ts: "Publishes committed outbox rows with crash-recoverable    *)
(* leases and bounded retry": every table delivers at least once before it  *)
(* acknowledges, gives up after MaxTries attempts only, and the outbox,     *)
(* which is fenced, never goes back on either, however slow its publishers. *)
Promise == INSTANCE AtLeastOnce WITH
  firm <- kind = "outbox",
  state <- [r \in Rows |-> CASE status[r] = "done" -> "acknowledged"
                             [] status[r] = "dead" -> "dropped"
                             [] OTHER -> "open"],
  tried <- tries,
  delivered <- {r \in Rows : effects[r] > 0}

KeepsPromise == Promise!Spec

(* A second effect of the same row costs a fault, a third another.          *)
DuplicatesCostFaults == \A r \in Rows : effects[r] <= 1 + faults

(* A dead letter says that a row was given up after MaxTries attempts; in   *)
(* the outbox it says so of the row as it stands.                           *)
DeadLettersTellTruth ==
  \A r \in Rows :
    /\ letters[r] > 0 => tries[r] >= MaxTries
    /\ status[r] = "dead" => letters[r] > 0
    /\ kind = "outbox" => letters[r] = IF status[r] = "dead" THEN 1 ELSE 0

(* Every row is done or given up in the end.  Two kinds are not: e-mails    *)
(* whose last attempt was never marked (the recovery leaves them failed     *)
(* with no attempt left and no dead letter), and, where there is neither    *)
(* lease nor second claim, rows whose worker died and events whose          *)
(* projection failed.                                                       *)
Forgotten(r) ==
  \/ kind = "email" /\ status[r] = "queued" /\ tries[r] = MaxTries
  \/ ~Leased /\ kind # "inbox" /\ status[r] = "held" /\ ~InHand(r)
EveryRowEnds == <>[](\A r \in Rows : status[r] \in {"done", "dead"} \/ Forgotten(r))
=============================================================================
